---------------------------- MODULE Spec2Model ----------------------------
(***************************************************************************)
(* ElementFinder (src/utils/element_finder.py) and WebDriverManager        *)
(* (src/utils/driver_manager.py): fallback selector search, retry-guarded  *)
(* click / send_keys / get_text, search statistics, and the driver         *)
(* lifecycle, as state machines.                                           *)
(***************************************************************************)
EXTENDS Integers, Sequences, FiniteSets, TLC

(***************************************************************************)
(* Bounds of the model.                                                    *)
(***************************************************************************)
\* longest selector list handed to a search
MaxLen == 2
\* searches counted by one finder before the model stops searching
MaxSearches == 2
\* largest retry_count argument of a safe operation
MaxRetry == 1
\* page changes during one safe operation
MaxChanges == 1
\* browsers one manager starts
MaxDrivers == 2
\* further nodes a selector can match besides its first
MaxSiblings == 1
\* polls of the page a wait makes before its timeout expires
MaxPolls == 2
\* characters of a text given to human_like_typing
MaxText == 2

(***************************************************************************)
(* The page: what each CSS selector currently resolves to.                 *)
(***************************************************************************)
Selectors == {"h1.title", "h1"}

\* absent: no node; present: in the DOM, not displayed; visible: displayed
\* but disabled; clickable: displayed and enabled; invalid: the driver
\* rejects the selector with an error that is not a timeout
ElemStates == {"absent", "present", "visible", "clickable", "invalid"}

PRESENCE == "presence_of_element_located"
VISIBLE == "visibility_of_element_located"
CLICKABLE == "element_to_be_clickable"
TEXT_PRESENT == "text_to_be_present_in_element"
ATTRIBUTE_PRESENT == "presence_of_element_attribute"

FindStrategy == {PRESENCE, VISIBLE, CLICKABLE, TEXT_PRESENT, ATTRIBUTE_PRESENT}

RECURSIVE SeqsUpTo(_, _)
SeqsUpTo(S, n) ==
  IF n = 0 THEN {<<>>}
  ELSE LET shorter == SeqsUpTo(S, n - 1)
       IN shorter \cup {Append(q, x) : q \in {r \in shorter : Len(r) = n - 1}, x \in S}

SelectorLists == SeqsUpTo(Selectors, MaxLen)

\* an element handle: the selector that resolved it, and whether the node it
\* refers to has since been detached from the DOM
None == [sel |-> "", stale |-> FALSE]

(***************************************************************************)
(* Times are exact rationals <<numerator, denominator>>; float('inf') is   *)
(* <<1, 0>>.                                                               *)
(***************************************************************************)
Inf == <<1, 0>>
Zero == <<0, 1>>

RECURSIVE Gcd(_, _)
Gcd(a, b) == IF b = 0 THEN a ELSE Gcd(b, a % b)

Norm(q) == IF q[2] = 0 THEN Inf
           ELSE LET g == Gcd(q[1], q[2]) IN <<q[1] \div g, q[2] \div g>>

Less(p, q) == p[1] * q[2] < q[1] * p[2]
min(p, q) == IF Less(q, p) THEN q ELSE p
max(p, q) == IF Less(p, q) THEN q ELSE p

(***************************************************************************)
(* self.statistics                                                         *)
(***************************************************************************)
RetryKinds == {"click", "send_keys", "get_text"}

EmptyUsage == [s \in {} |-> [attempts |-> 0, successes |-> 0]]

InitStatistics ==
  [ total_searches |-> 0,
    successful_searches |-> 0,
    failed_searches |-> 0,
    selector_usage |-> EmptyUsage,
    strategy_success_rate |-> [g \in FindStrategy |-> [attempts |-> 0, successes |-> 0]],
    retry_counts |-> [k \in RetryKinds |-> 0],
    timing |-> [fastest_search |-> Inf, slowest_search |-> Zero,
                average_search_time |-> Zero] ]

(***************************************************************************)
(* json.dump and json.load on self.statistics.  A number is written as its *)
(* decimal digits and read back from them; float('inf') is written as the  *)
(* literal Infinity.                                                       *)
(***************************************************************************)
RECURSIVE Digits(_)
Digits(n) == IF n < 10 THEN <<n>> ELSE Append(Digits(n \div 10), n % 10)

RECURSIVE Number(_)
Number(ds) ==
  IF Len(ds) = 0 THEN 0
  ELSE Number(SubSeq(ds, 1, Len(ds) - 1)) * 10 + ds[Len(ds)]

JsonInt(n) == [literal |-> "int", num |-> Digits(n), den |-> <<>>]

JsonFloat(q) ==
  IF q = Inf THEN [literal |-> "Infinity", num |-> <<>>, den |-> <<>>]
  ELSE [literal |-> "float", num |-> Digits(q[1]), den |-> Digits(q[2])]

ParseInt(j) == Number(j.num)

\* a reader of strict JSON, which has no Infinity literal
ParseFloatStrict(j) ==
  IF j.literal = "Infinity" THEN Zero ELSE <<Number(j.num), Number(j.den)>>

ParseFloat(j) ==
  IF j.literal = "Infinity" THEN Inf ELSE <<Number(j.num), Number(j.den)>>

JsonCounts(c) == [attempts |-> JsonInt(c.attempts), successes |-> JsonInt(c.successes)]

ParseCounts(j) == [attempts |-> ParseInt(j.attempts), successes |-> ParseInt(j.successes)]

\* json.dump(self.statistics, f)
JsonDump(stats) ==
  [ total_searches |-> JsonInt(stats.total_searches),
    successful_searches |-> JsonInt(stats.successful_searches),
    failed_searches |-> JsonInt(stats.failed_searches),
    selector_usage |->
      [s \in DOMAIN stats.selector_usage |-> JsonCounts(stats.selector_usage[s])],
    strategy_success_rate |->
      [g \in DOMAIN stats.strategy_success_rate |->
         JsonCounts(stats.strategy_success_rate[g])],
    retry_counts |->
      [k \in DOMAIN stats.retry_counts |-> JsonInt(stats.retry_counts[k])],
    timing |->
      [fastest_search |-> JsonFloat(stats.timing.fastest_search),
       slowest_search |-> JsonFloat(stats.timing.slowest_search),
       average_search_time |-> JsonFloat(stats.timing.average_search_time)] ]

\* json.load(f)
JsonLoad(doc) ==
  [ total_searches |-> ParseInt(doc.total_searches),
    successful_searches |-> ParseInt(doc.successful_searches),
    failed_searches |-> ParseInt(doc.failed_searches),
    selector_usage |->
      [s \in DOMAIN doc.selector_usage |-> ParseCounts(doc.selector_usage[s])],
    strategy_success_rate |->
      [g \in DOMAIN doc.strategy_success_rate |->
         ParseCounts(doc.strategy_success_rate[g])],
    retry_counts |->
      [k \in DOMAIN doc.retry_counts |-> ParseInt(doc.retry_counts[k])],
    timing |->
      [fastest_search |-> ParseFloat(doc.timing.fastest_search),
       slowest_search |-> ParseFloat(doc.timing.slowest_search),
       average_search_time |-> ParseFloat(doc.timing.average_search_time)] ]

\* no file at the path
NoFile == [exists |-> FALSE, content |-> JsonDump(InitStatistics)]

(***************************************************************************)
(* WebDriverManager: services, drivers, the environment and the settings.  *)
(***************************************************************************)
\* the services create_driver accepts, and the names a caller may pass
Services == {"chatgpt", "gemini", "claude"}
ServiceNames == Services \cup {"bard"}

\* a driver is the position of its browser in processes; None is 0
NoDriver == 0

\* self.drivers = {}
NoDrivers == [s \in {} |-> NoDriver]

\* the variables create_profile_options reads, and what os.getenv gives
\* for them: None when unset, else the string
EnvNames == {"GITHUB_ACTIONS", "HEADLESS"}
EnvValues == {"unset", "", "true"}

\* global_settings.get('headless', False) of the configurations considered
HeadlessSettings == {"absent", "False", "True"}

\* names a configuration document can hold at its top level
Sections == {"global_settings", "services"}

\* the configuration file at config_path: missing, not JSON, or a JSON
\* document: null, a number, a string (names: the section names occurring in
\* it), an array (names: the strings in it) or an object (names: its keys,
\* headless: the setting inside global_settings)
ConfigFiles ==
  [kind : {"missing", "invalid", "null", "number"}, names : {{}}, headless : {"absent"}]
    \cup [kind : {"string", "array"}, names : SUBSET Sections, headless : {"absent"}]
    \cup [kind : {"object"}, names : {n \in SUBSET Sections : "global_settings" \notin n},
          headless : {"absent"}]
    \cup [kind : {"object"}, names : {n \in SUBSET Sections : "global_settings" \in n},
          headless : HeadlessSettings]

\* a configuration file with these global settings
ConfigOf(settings) ==
  [kind |-> "object", names |-> Sections, headless |-> settings.headless]

\* the headless argument of create_driver and create_profile_options
HeadlessArguments == {"None", "False", "True"}

\* a reading that takes a variable for set as soon as it is in the environment
GetenvPresent(env, name) == env[name] # "unset"

\* truth of os.getenv(name): None and the empty string are false
Getenv(env, name) == env[name] \notin {"unset", ""}

\* the headless mode create_profile_options settles on
ResolveHeadless(headless, env, settings) ==
  IF headless = "None"
    THEN IF Getenv(env, "GITHUB_ACTIONS") \/ Getenv(env, "HEADLESS")
           THEN TRUE
           ELSE settings.headless = "True"
    ELSE headless = "True"

\* the arguments create_profile_options always adds
CommonArguments ==
  {"--no-sandbox", "--disable-dev-shm-usage",
   "--disable-blink-features=AutomationControlled", "--user-agent",
   "--disable-web-security", "--disable-features=VizDisplayCompositor",
   "--disable-background-timer-throttling",
   "--disable-backgrounding-occluded-windows",
   "--disable-renderer-backgrounding", "--memory-pressure-off",
   "--max_old_space_size=4096"}

\* create_profile_options(service_name, headless)
ProfileOptions(service_name, headless, env, settings) ==
  (IF ResolveHeadless(headless, env, settings) THEN {"--headless=new"} ELSE {})
    \cup {"--user-data-dir=" \o service_name \o "_profile"}
    \cup CommonArguments

VARIABLES
  page,        \* [Selectors -> ElemStates]: the DOM as the driver sees it
  statistics,  \* self.statistics of the finder
  pc,          \* where the caller is: "idle", inside an operation, "returned"
  call,        \* the call being made or just made: operation and arguments
  frame,       \* the locals of the running safe operation
  ret,         \* what that call returned or raised
  nfinds,      \* find_element_with_fallback calls completed since __init__ ran
  file,        \* the statistics file on disk
  restored,    \* self.statistics of a second, freshly constructed finder
  drivers,     \* WebDriverManager.drivers: service name -> tracked driver
  processes,   \* the browsers started so far; a driver is its position here
  environ,     \* os.environ
  global_settings,  \* WebDriverManager.global_settings
  config,      \* the configuration file at config_path
  siblings,    \* [Selectors -> Seq(ElemStates)]: further nodes of a selector
  field,       \* [Selectors -> node]: what the selector's first node holds
  trace,       \* the steps of the attempt under way, where they are recorded
  attributes   \* self.driver and self.default_timeout of the finder

\* the state of the element finder and of the driver manager
finder == <<page, siblings, field, trace, attributes, statistics, frame, nfinds, file,
           restored>>
manager == <<drivers, processes, environ, global_settings, config>>

vars == <<page, statistics, pc, call, frame, ret, nfinds, file, restored,
          drivers, processes, environ, global_settings, config, siblings, field, trace,
          attributes>>

(***************************************************************************)
(* _find_element_by_strategy                                               *)
(***************************************************************************)
\* conditions of their own for the text and the attribute strategy, which
\* a node meets once it is shown
StrategyPredicateShown(st, strategy) ==
  CASE strategy = PRESENCE -> st \in {"present", "visible", "clickable"}
    [] strategy = VISIBLE -> st \in {"visible", "clickable"}
    [] strategy = CLICKABLE -> st = "clickable"
    [] strategy = TEXT_PRESENT -> st \in {"visible", "clickable"}
    [] strategy = ATTRIBUTE_PRESENT -> st \in {"visible", "clickable"}
    [] OTHER -> st \in {"present", "visible", "clickable"}

\* the expected condition each strategy polls for
StrategyPredicate(st, strategy) ==
  CASE strategy = PRESENCE -> st \in {"present", "visible", "clickable"}
    [] strategy = VISIBLE -> st \in {"visible", "clickable"}
    [] strategy = CLICKABLE -> st = "clickable"
    [] strategy = TEXT_PRESENT -> st \in {"present", "visible", "clickable"}
    [] strategy = ATTRIBUTE_PRESENT -> st \in {"present", "visible", "clickable"}
    [] OTHER -> st \in {"present", "visible", "clickable"}

\* [kind |-> "element" | "none" | "error", element]: the wait returned the
\* node, timed out (None), or raised something that is not a timeout
FindElementByStrategy(pg, selector, strategy) ==
  IF pg[selector] = "invalid" THEN [kind |-> "error", element |-> None]
  ELSE IF StrategyPredicate(pg[selector], strategy)
       THEN [kind |-> "element", element |-> [sel |-> selector, stale |-> FALSE]]
       ELSE [kind |-> "none", element |-> None]

(***************************************************************************)
(* _update_success_statistics                                              *)
(***************************************************************************)
\* a variant that forgets the winning selector's success counter
UpdateSuccessStatisticsNoSelector(stats, selector, strategy, search_time) ==
  LET n == stats.successful_searches + 1
      t == <<search_time, 1>>
      avg == stats.timing.average_search_time
  IN [stats EXCEPT
        !.successful_searches = n,
        !.strategy_success_rate[strategy].successes = @ + 1,
        !.timing.fastest_search = min(@, t),
        !.timing.slowest_search = max(@, t),
        !.timing.average_search_time =
            Norm(<<avg[1] * (n - 1) + search_time * avg[2], avg[2] * n>>)]

\* a variant that forgets the strategy's success counter
UpdateSuccessStatisticsNoStrategy(stats, selector, strategy, search_time) ==
  LET n == stats.successful_searches + 1
      t == <<search_time, 1>>
      avg == stats.timing.average_search_time
  IN [stats EXCEPT
        !.successful_searches = n,
        !.selector_usage[selector].successes = @ + 1,
        !.timing.fastest_search = min(@, t),
        !.timing.slowest_search = max(@, t),
        !.timing.average_search_time =
            Norm(<<avg[1] * (n - 1) + search_time * avg[2], avg[2] * n>>)]

\* lines 591-612
UpdateSuccessStatistics(stats, selector, strategy, search_time) ==
  LET n == stats.successful_searches + 1
      t == <<search_time, 1>>
      avg == stats.timing.average_search_time
  IN [stats EXCEPT
        !.successful_searches = n,
        !.selector_usage[selector].successes = @ + 1,
        !.strategy_success_rate[strategy].successes = @ + 1,
        !.timing.fastest_search = min(@, t),
        !.timing.slowest_search = max(@, t),
        !.timing.average_search_time =
            Norm(<<avg[1] * (n - 1) + search_time * avg[2], avg[2] * n>>)]

(***************************************************************************)
(* find_element_with_fallback                                              *)
(***************************************************************************)
\* a variant that forgets the global counter
CountSearchNoTotal(stats, strategy) ==
  [stats EXCEPT !.strategy_success_rate[strategy].attempts = @ + 1]

\* a variant that counts a search as a retry of a click as well
CountSearchAsRetry(stats, strategy) ==
  [stats EXCEPT !.total_searches = @ + 1,
                !.strategy_success_rate[strategy].attempts = @ + 1,
                !.retry_counts["click"] = @ + 1]

\* lines 113-114: the counters bumped before the loop
CountSearch(stats, strategy) ==
  [stats EXCEPT !.total_searches = @ + 1,
                !.strategy_success_rate[strategy].attempts = @ + 1]

\* a variant that makes the selector's entry anew at every test
CountAttemptAfresh(stats, selector) ==
  [stats EXCEPT !.selector_usage =
     (selector :> [attempts |-> 1, successes |-> 0]) @@ stats.selector_usage]

\* lines 123-125: the per-selector attempt counter
CountAttempt(stats, selector) ==
  LET usage == IF selector \in DOMAIN stats.selector_usage
               THEN stats.selector_usage
               ELSE (selector :> [attempts |-> 0, successes |-> 0]) @@ stats.selector_usage
  IN [stats EXCEPT !.selector_usage = [usage EXCEPT ![selector].attempts = @ + 1]]

\* a variant that raises without counting the failure
AllSelectorsFailedUncounted(stats, selectors, tested) ==
  [ statistics |-> stats,
    kind |-> "SelectorNotFoundError",
    element |-> None,
    selector |-> "",
    selectors_tried |-> selectors,
    tested |-> tested ]

\* lines 146-148: every selector failed
AllSelectorsFailed(stats, selectors, tested) ==
  [ statistics |-> [stats EXCEPT !.failed_searches = @ + 1],
    kind |-> "SelectorNotFoundError",
    element |-> None,
    selector |-> "",
    selectors_tried |-> selectors,
    tested |-> tested ]

\* a variant that visits the list from its end
EnumerateReversed(selectors) ==
  [i \in 1..Len(selectors) |-> selectors[Len(selectors) + 1 - i]]

\* line 118: the order in which the loop visits the list
Enumerate(selectors) == selectors

\* lines 110, 132: time.time() - search_start_time, on a clock that ticks
\* once per selector tested
SearchTime(tested) == Len(tested)

\* a loop that goes on after a timeout only
GoesOnAfterTimeout(kind) == kind = "none"

\* lines 138-143: `except TimeoutException: continue` and
\* `except Exception: continue`: the loop goes on to the next selector
\* whatever the selector's test raised
GoesOn(kind) == TRUE

\* lines 118-143: the loop from position i on; tested is the sequence of
\* selectors tested so far
RECURSIVE FindLoop(_, _, _, _, _, _)
FindLoop(stats, pg, selectors, strategy, i, tested) ==
  IF i > Len(selectors) THEN AllSelectorsFailed(stats, selectors, tested)
  ELSE LET selector == Enumerate(selectors)[i]
           counted == CountAttempt(stats, selector)
           found == FindElementByStrategy(pg, selector, strategy)
           now == Append(tested, selector)
       IN IF found.kind = "element"
          THEN [ statistics |-> UpdateSuccessStatistics(counted, selector, strategy,
                                                        SearchTime(now)),
                 kind |-> "return",
                 element |-> found.element,
                 selector |-> selector,
                 selectors_tried |-> <<>>,
                 tested |-> now ]
          ELSE IF GoesOn(found.kind)
          THEN FindLoop(counted, pg, selectors, strategy, i + 1, now)
          ELSE [ statistics |-> counted,
                 kind |-> "WebDriverException",
                 element |-> None,
                 selector |-> "",
                 selectors_tried |-> <<>>,
                 tested |-> now ]

FindElementWithFallback(stats, pg, selectors, strategy) ==
  FindLoop(CountSearch(stats, strategy), pg, selectors, strategy, 1, <<>>)

(***************************************************************************)
(* find_elements_with_fallback                                             *)
(***************************************************************************)
\* the nodes a selector matches, in document order
Nodes(pg, sib, selector) ==
  IF pg[selector] \in {"absent", "invalid"} THEN <<>>
  ELSE <<pg[selector]>> \o sib[selector]

\* handles to the first n nodes of a selector
Handle(selector, n) == [i \in 1..n |-> [sel |-> selector, stale |-> FALSE]]

\* lines 171-182: what one selector yields under the strategy: the list
\* `elements` (kind "elements") or the exception raised; finds is the number
\* of find_element_with_fallback calls made.  presence_of_all_elements_located
\* gives every node, visibility_of_all_elements_located gives every node when
\* all of them are displayed, both time out on an empty list; the other
\* strategies make a list of the one element find_element_with_fallback
\* returns
ElementsFor(stats, pg, sib, selector, strategy) ==
  LET nodes == Nodes(pg, sib, selector)
  IN IF strategy \in {PRESENCE, VISIBLE}
     THEN IF pg[selector] = "invalid"
            THEN [statistics |-> stats, finds |-> 0,
                  kind |-> "InvalidSelectorException", elements |-> <<>>]
          ELSE IF /\ nodes # <<>>
                  /\ \A i \in 1..Len(nodes) : StrategyPredicate(nodes[i], strategy)
            THEN [statistics |-> stats, finds |-> 0,
                  kind |-> "elements", elements |-> Handle(selector, Len(nodes))]
            ELSE [statistics |-> stats, finds |-> 0,
                  kind |-> "TimeoutException", elements |-> <<>>]
     ELSE LET r == FindElementWithFallback(stats, pg, <<selector>>, strategy)
          IN IF r.kind = "return"
               THEN [statistics |-> r.statistics, finds |-> 1,
                     kind |-> "elements", elements |-> <<r.element>>]
               ELSE [statistics |-> r.statistics, finds |-> 1,
                     kind |-> r.kind, elements |-> <<>>]

\* only the first except clause kept
CaughtTimeoutOnly(exception) == exception = "TimeoutException"

\* lines 188-192: except TimeoutException, then except Exception: every
\* exception of the try block is caught
Caught(exception) == TRUE

\* lines 169-195
RECURSIVE FindAllLoop(_, _, _, _, _, _, _)
FindAllLoop(stats, pg, sib, selectors, strategy, i, finds) ==
  IF i > Len(selectors)
  THEN [statistics |-> stats, kind |-> "return", elements |-> <<>>, selector |-> "None",
        finds |-> finds]
  ELSE LET e == ElementsFor(stats, pg, sib, selectors[i], strategy)
       IN IF e.kind = "elements" /\ e.elements # <<>>
          THEN [statistics |-> e.statistics, kind |-> "return", elements |-> e.elements,
                selector |-> selectors[i], finds |-> finds + e.finds]
          ELSE IF e.kind = "elements" \/ Caught(e.kind)
          THEN FindAllLoop(e.statistics, pg, sib, selectors, strategy, i + 1,
                           finds + e.finds)
          ELSE [statistics |-> e.statistics, kind |-> e.kind, elements |-> <<>>,
                selector |-> "", finds |-> finds + e.finds]

FindElementsWithFallback(stats, pg, sib, selectors, strategy) ==
  FindAllLoop(stats, pg, sib, selectors, strategy, 1, 0)

(***************************************************************************)
(* Initial state: a freshly constructed finder on some page.               *)
(***************************************************************************)
Pages == [Selectors -> ElemStates]

\* every selector matches one node at most
NoSiblings == [s \in Selectors |-> <<>>]

\* what a node holds: input says whether it is a text field, value is the
\* characters in it
NoField == [input |-> FALSE, value |-> <<>>]

\* no selector matches a text field
NoFields == [s \in Selectors |-> NoField]

\* ElementFinder(driver, default_timeout=10)
DefaultTimeout == 10

\* the sessions a finder can be bound to and the timeouts it can be given
Sessions == {"session 1", "session 2"}

Timeouts == {5, DefaultTimeout}

DefaultAttributes == [driver |-> "session 1", default_timeout |-> DefaultTimeout]

\* a step of an attempt: what was done to the element, and whether it
\* went through
Step(name, ok) == [step |-> name, ok |-> ok]

\* steps: the steps of the attempt under way or just ended, recorded where
\* on holds
NoTrace == [on |-> FALSE, steps |-> <<>>]

Traced == [on |-> TRUE, steps |-> <<>>]

\* what a text field can hold when the page shows it
InitialValues == {<<>>, <<"o">>}

\* the states a node can be in
NodeStates == ElemStates \ {"absent", "invalid"}

FIND == "find_element_with_fallback"
FIND_ALL == "find_elements_with_fallback"
RESET == "reset_statistics"
SAVE == "save_statistics"
LOAD == "load_statistics"
CREATE_DRIVER == "create_driver"
CLEANUP_DRIVER == "cleanup_driver"

\* a call: the operation, its target (a selector list or an element) and
\* its other arguments
Idle == [op |-> "none", target |-> "selectors", selectors |-> <<>>, element |-> None,
         strategy |-> PRESENCE, retry_count |-> 0,
         service_name |-> "", headless |-> "None", driver |-> NoDriver,
         fault |-> "none", text |-> <<>>,
         scroll_to_element |-> TRUE, clear_first |-> TRUE]

\* a result: kind is "return" or the exception raised
NoRet == [kind |-> "none", value |-> "", element |-> None, elements |-> <<>>,
          selector |-> "", selectors_tried |-> <<>>, tested |-> <<>>,
          driver |-> NoDriver, options |-> {}, cleaned |-> {}, sources |-> <<>>]

\* element: the handle the loop works on; attempt: iterations of the
\* operation's loop completed; inner: iterations completed by the
\* safe_click that safe_send_keys calls; changes: page changes since the
\* operation began; sent: the send_keys calls human_like_typing has made
NoFrame == [element |-> None, attempt |-> 0, inner |-> 0, changes |-> 0, sent |-> <<>>]

Init ==
  /\ page \in Pages
  /\ statistics = InitStatistics
  /\ pc = "idle"
  /\ call = Idle
  /\ frame = NoFrame
  /\ ret = NoRet
  /\ nfinds = 0
  /\ file = NoFile
  /\ restored = InitStatistics
  /\ drivers = NoDrivers
  /\ processes = <<>>
  /\ environ = [v \in EnvNames |-> "unset"]
  /\ global_settings = [headless |-> "absent"]
  /\ config = ConfigOf(global_settings)
  /\ siblings = NoSiblings
  /\ field = NoFields
  /\ trace = NoTrace
  /\ attributes = DefaultAttributes

(***************************************************************************)
(* A caller runs find_element_with_fallback(selectors, strategy).          *)
(***************************************************************************)
Find ==
  \E selectors \in SelectorLists, strategy \in FindStrategy :
    /\ pc = "idle"
    /\ statistics.total_searches < MaxSearches
    /\ \E r \in {FindElementWithFallback(statistics, page, selectors, strategy)} :
         /\ statistics' = r.statistics
         /\ ret' = [NoRet EXCEPT !.kind = r.kind, !.element = r.element,
                                 !.selector = r.selector,
                                 !.selectors_tried = r.selectors_tried,
                                 !.tested = r.tested]
    /\ call' = [Idle EXCEPT !.op = FIND, !.selectors = selectors,
                             !.strategy = strategy]
    /\ nfinds' = nfinds + 1
    /\ pc' = "returned"
    /\ UNCHANGED <<page, siblings, field, trace, frame, file, restored, attributes, manager>>

(***************************************************************************)
(* A caller runs find_elements_with_fallback(selectors, strategy).         *)
(***************************************************************************)
FindAll ==
  \E selectors \in SelectorLists, strategy \in FindStrategy :
    /\ pc = "idle"
    /\ statistics.total_searches < MaxSearches
    /\ \E r \in {FindElementsWithFallback(statistics, page, siblings, selectors, strategy)} :
         /\ statistics' = r.statistics
         /\ ret' = [NoRet EXCEPT !.kind = r.kind, !.elements = r.elements,
                                 !.selector = r.selector]
         /\ nfinds' = nfinds + r.finds
    /\ call' = [Idle EXCEPT !.op = FIND_ALL, !.selectors = selectors,
                             !.strategy = strategy]
    /\ pc' = "returned"
    /\ UNCHANGED <<page, siblings, field, trace, frame, file, restored, attributes, manager>>

(***************************************************************************)
(* The caller takes the result and goes on; a statistics file written and  *)
(* a second finder made for it are disposed of.                            *)
(***************************************************************************)
Continue ==
  /\ pc = "returned"
  /\ pc' = "idle"
  /\ call' = Idle
  /\ frame' = NoFrame
  /\ ret' = NoRet
  /\ file' = NoFile
  /\ restored' = InitStatistics
  /\ trace' = [trace EXCEPT !.steps = <<>>]
  /\ UNCHANGED <<page, siblings, field, statistics, nfinds, attributes, manager>>

Next == Find \/ Continue

Spec == Init /\ [][Next]_vars

\* the finder with find_elements_with_fallback as well
NextElements == Find \/ FindAll \/ Continue

SpecElements == Init /\ [][NextElements]_vars

\* a freshly constructed finder on a page whose selectors can match several
\* nodes
InitFindAll ==
  /\ page \in Pages
  /\ siblings \in {sb \in [Selectors -> SeqsUpTo(NodeStates, MaxSiblings)] :
                     \A s \in Selectors :
                       page[s] \in {"absent", "invalid"} => sb[s] = <<>>}
  /\ field = NoFields
  /\ trace = NoTrace
  /\ attributes = DefaultAttributes
  /\ statistics = InitStatistics
  /\ pc = "idle"
  /\ call = Idle
  /\ frame = NoFrame
  /\ ret = NoRet
  /\ nfinds = 0
  /\ file = NoFile
  /\ restored = InitStatistics
  /\ drivers = NoDrivers
  /\ processes = <<>>
  /\ environ = [v \in EnvNames |-> "unset"]
  /\ global_settings = [headless |-> "absent"]
  /\ config = ConfigOf(global_settings)

NextFindAll == FindAll \/ Continue

SpecFindAll == InitFindAll /\ [][NextFindAll]_vars

(***************************************************************************)
(* The safe operations: safe_click, safe_send_keys, safe_get_text.         *)
(***************************************************************************)
SAFE_CLICK == "safe_click"
SAFE_SEND_KEYS == "safe_send_keys"
SAFE_GET_TEXT == "safe_get_text"
SafeOps == {SAFE_CLICK, SAFE_SEND_KEYS, SAFE_GET_TEXT}

\* safe_send_keys after its focusing click succeeded
TYPING == "safe_send_keys.type"

\* inside wait_for_element_to_disappear
WAITING == "wait_for_element_to_disappear"

\* the default of safe_click's retry_count, used by the click inside
\* safe_send_keys
DefaultRetryCount == 3

\* the key of retry_counts an operation adds to
RetryKind(op) ==
  IF op = SAFE_CLICK THEN "click"
  ELSE IF op = SAFE_SEND_KEYS THEN "send_keys" ELSE "get_text"

\* what an operation returns when it gives up
Failure(op) == IF op = SAFE_GET_TEXT THEN "None" ELSE "False"

\* range(retry_count) : the loop with one iteration too few
AttemptsWithoutFirstTry(retry_count) == retry_count

\* range(retry_count + 1) : the number of iterations the loop may run
Attempts(retry_count) == retry_count + 1

\* element handles a caller can hold: None, a handle whose node is still in
\* the page, or a handle whose node is gone (stale)
Handles(pg) ==
  {None}
    \cup {[sel |-> s, stale |-> TRUE] : s \in Selectors}
    \cup {[sel |-> s, stale |-> FALSE] :
            s \in {t \in Selectors : pg[t] \in {"present", "visible", "clickable"}}}

\* a resolve that gives None where the search raises
ResolveElementOrNone(stats, pg, c) ==
  IF c.target = "selectors"
    THEN LET r == FindElementWithFallback(stats, pg, c.selectors, PRESENCE)
         IN [statistics |-> r.statistics, kind |-> "return", element |-> r.element,
             selectors_tried |-> <<>>, finds |-> 1]
    ELSE [statistics |-> stats, kind |-> "return", element |-> c.element,
          selectors_tried |-> <<>>, finds |-> 0]

\* _resolve_element: a list is searched with the default strategy, anything
\* else is returned as it is
ResolveElement(stats, pg, c) ==
  IF c.target = "selectors"
    THEN LET r == FindElementWithFallback(stats, pg, c.selectors, PRESENCE)
         IN [statistics |-> r.statistics, kind |-> r.kind, element |-> r.element,
             selectors_tried |-> r.selectors_tried, finds |-> 1]
    ELSE [statistics |-> stats, kind |-> "return", element |-> c.element,
          selectors_tried |-> <<>>, finds |-> 0]

\* one pass through safe_click's try block: the wait for clickability raises
\* on a stale handle and times out on an element that is not clickable; the
\* driver may still fail the click itself
ClickFaults == {"ok", "not_interactable", "error"}

ClickOutcome(pg, element, fault) ==
  IF element.stale THEN "stale"
  ELSE IF pg[element.sel] # "clickable" THEN "error"
  ELSE fault

\* clear and type on the focused element
TypeFaults == {"ok", "error"}

\* the texts safe_send_keys is asked to type
TextArgs == {<<"n", "e">>}

\* what the element receives with clear_first: element.clear(), CONTROL+a,
\* DELETE, then the characters of the text one at a time
Keystrokes(text, clear_first) ==
  (IF clear_first THEN <<"clear", "CONTROL+a", "DELETE">> ELSE << >>) \o text

\* a field that keeps what it held
Kept(value) == value

\* element.clear() and DELETE on the whole selection leave the field empty
Emptied(value) == <<>>

\* the field after one of them
Press(value, key) ==
  IF key \in {"clear", "DELETE"} THEN Emptied(value)
  ELSE IF key = "CONTROL+a" THEN value
  ELSE IF key = "BACKSPACE"
    THEN IF value = <<>> THEN value ELSE SubSeq(value, 1, Len(value) - 1)
  ELSE Append(value, key)

\* the calls made on the element when the first `done` of the keys went
\* through: the next one, if any, raised
TypeSteps(keys, done) ==
  [j \in 1..(IF done = Len(keys) THEN done ELSE done + 1) |-> Step(keys[j], j <= done)]

\* the field after the first `done` of the keys
RECURSIVE Typed(_, _, _)
Typed(value, keys, done) ==
  IF done = 0 THEN value
  ELSE Press(Typed(value, keys, done - 1), keys[done])

TypeOutcome(element, fault) == IF element.stale THEN "stale" ELSE fault

\* str.strip on the texts an element can carry
Texts == {"", " ", " hi "}

Strip(t) == IF t = " hi " THEN "hi" ELSE ""

\* one pass through safe_get_text's try block: rendered text, innerText,
\* textContent; "none" stands for leaving the block without a return
GetTextResult(rendered, innerText, textContent) ==
  IF Strip(rendered) # "" THEN Strip(rendered)
  ELSE IF innerText # "" THEN Strip(innerText)
  ELSE IF textContent # "" THEN Strip(textContent)
  ELSE "none"

\* the operation returns value
Return(value) ==
  /\ ret' = [NoRet EXCEPT !.kind = "return", !.value = value]
  /\ pc' = "returned"

\* the loop is over without a return: the retry counter grows by
\* retry_count and the operation reports failure
GiveUp(stats, attempts) ==
  /\ statistics' = [stats EXCEPT !.retry_counts[RetryKind(call.op)] = @ + call.retry_count]
  /\ frame' = [frame EXCEPT !.attempt = attempts, !.inner = 0]
  /\ Return(Failure(call.op))

\* a loop that counts one retry each time it goes round again
NextAttemptCounted(stats, element) ==
  IF frame.attempt + 1 >= Attempts(call.retry_count)
    THEN GiveUp(stats, frame.attempt + 1)
    ELSE /\ statistics' = [stats EXCEPT !.retry_counts[RetryKind(call.op)] = @ + 1]
         /\ frame' = [frame EXCEPT !.element = element, !.attempt = @ + 1, !.inner = 0]
         /\ pc' = call.op
         /\ ret' = NoRet

\* an iteration ended without a return and without a break
NextAttempt(stats, element) ==
  IF frame.attempt + 1 >= Attempts(call.retry_count)
    THEN GiveUp(stats, frame.attempt + 1)
    ELSE /\ statistics' = stats
         /\ frame' = [frame EXCEPT !.element = element, !.attempt = @ + 1, !.inner = 0]
         /\ pc' = call.op
         /\ ret' = NoRet

\* the loops without their except Exception clause
CatchesNoError(outcome) == outcome # "error"

\* the outcomes of an iteration that leave the loop running: the exceptions
\* the except clauses name (stale element, not interactable, and Exception
\* for every other error) and a try block that ends without a return
Catches(outcome) == TRUE

\* the handler going on with the handle it had
KeepHandle(held, resolved) == held

\* element = self._resolve_element(element_or_selectors) in the stale
\* handlers: the loop goes on with the element just resolved
Rebind(held, resolved) == resolved

\* the except clauses of the three loops; an element given as the target is
\* the handle the loop holds, so resolving it again gives that handle back
AttemptFailed(outcome) ==
  IF outcome = "stale"
    THEN LET r == ResolveElement(statistics, page, [call EXCEPT !.element = frame.element])
         IN /\ nfinds' = nfinds + r.finds
            /\ IF r.kind = "SelectorNotFoundError"
                 THEN /\ statistics' = r.statistics
                      /\ frame' = [frame EXCEPT !.attempt = @ + 1, !.inner = 0]
                      /\ ret' = [NoRet EXCEPT !.kind = r.kind,
                                              !.selectors_tried = r.selectors_tried]
                      /\ pc' = "returned"
                 ELSE IF r.element = None
                   THEN GiveUp(r.statistics, frame.attempt + 1)
                   ELSE NextAttempt(r.statistics, Rebind(frame.element, r.element))
    ELSE IF Catches(outcome)
      THEN /\ nfinds' = nfinds
           /\ NextAttempt(statistics, frame.element)
      ELSE /\ ret' = [NoRet EXCEPT !.kind = "WebDriverException"]
           /\ frame' = [frame EXCEPT !.attempt = @ + 1, !.inner = 0]
           /\ pc' = "returned"
           /\ UNCHANGED <<statistics, nfinds>>

\* A caller starts a safe operation on a selector list or on an element:
\* the target is resolved, and a target that resolves to nothing fails at once
SafeCall(op, target, selectors, element, text, flag, retry_count) ==
  /\ target = "selectors" => element = None
  /\ target = "element" => selectors = <<>>
  /\ call' = [Idle EXCEPT !.op = op, !.target = target, !.selectors = selectors,
                           !.element = element, !.text = text,
                           !.scroll_to_element = (op = SAFE_CLICK => flag),
                           !.clear_first = (op = SAFE_SEND_KEYS => flag),
                           !.retry_count = retry_count]
  /\ LET r == ResolveElement(statistics, page, call')
     IN /\ statistics' = r.statistics
        /\ nfinds' = nfinds + r.finds
        /\ frame' = [NoFrame EXCEPT !.element = r.element]
        /\ IF r.kind = "SelectorNotFoundError"
             THEN /\ ret' = [NoRet EXCEPT !.kind = r.kind,
                                          !.selectors_tried = r.selectors_tried]
                  /\ pc' = "returned"
             ELSE IF r.element = None
               THEN Return(Failure(op))
               ELSE /\ ret' = NoRet
                    /\ pc' = op
  /\ UNCHANGED <<page, siblings, field, trace, file, restored, attributes, manager>>

\* scroll_to_element and clear_first: the model passes False as well where
\* the steps are recorded, and leaves them at their default True elsewhere
OptionalArgs == IF trace.on THEN BOOLEAN ELSE {TRUE}

\* the calls the model makes: while the finder has counted fewer than
\* MaxSearches searches and no retry counter has reached MaxRetry
SafeClick ==
  \E target \in {"selectors", "element"}, selectors \in SelectorLists,
     element \in Handles(page), scroll_to_element \in OptionalArgs,
     retry_count \in 0..MaxRetry :
    /\ pc = "idle"
    /\ statistics.total_searches < MaxSearches
    /\ \A k \in RetryKinds : statistics.retry_counts[k] < MaxRetry
    /\ SafeCall(SAFE_CLICK, target, selectors, element, <<>>, scroll_to_element, retry_count)

SafeSendKeys ==
  \E target \in {"selectors", "element"}, selectors \in SelectorLists,
     element \in Handles(page), text \in TextArgs, clear_first \in OptionalArgs,
     retry_count \in 0..MaxRetry :
    /\ pc = "idle"
    /\ statistics.total_searches < MaxSearches
    /\ \A k \in RetryKinds : statistics.retry_counts[k] < MaxRetry
    /\ SafeCall(SAFE_SEND_KEYS, target, selectors, element, text, clear_first, retry_count)

SafeGetText ==
  \E target \in {"selectors", "element"}, selectors \in SelectorLists,
     element \in Handles(page), retry_count \in 0..MaxRetry :
    /\ pc = "idle"
    /\ statistics.total_searches < MaxSearches
    /\ \A k \in RetryKinds : statistics.retry_counts[k] < MaxRetry
    /\ SafeCall(SAFE_GET_TEXT, target, selectors, element, <<>>, TRUE, retry_count)

\* an attempt that a failed scroll ends
ProceedsWhenScrolled(scrolled) == scrolled

\* lines 220-221: the value scroll_to_element returns is not looked at
Proceeds(scrolled) == TRUE

\* lines 219-230: the steps of one pass through safe_click's try block.
\* scroll_to_element catches what its script raises, on a stale handle or
\* by a failure of the driver, and returns False; the wait raises on a stale
\* handle and times out on an element that is not clickable; the click
\* script runs after the wait
ClickSteps(pg, element, scroll_to_element, scroll_fault, fault) ==
  LET scrolled == ~element.stale /\ ~scroll_fault
      clickable == ~element.stale /\ pg[element.sel] = "clickable"
      scroll == IF scroll_to_element THEN << Step("scroll", scrolled) >> ELSE << >>
  IN IF scroll_to_element /\ ~Proceeds(scrolled) THEN scroll
     ELSE scroll \o << Step("wait", clickable) >>
                 \o (IF clickable THEN << Step("click", fault = "ok") >> ELSE << >>)

\* the steps recorded
Record(steps) == IF trace.on THEN [trace EXCEPT !.steps = steps] ELSE trace

\* one iteration of safe_click's loop
ClickAttempt ==
  \E fault \in ClickFaults, scroll_fault \in BOOLEAN :
    /\ pc = SAFE_CLICK
    /\ trace' = Record(ClickSteps(page, frame.element, call.scroll_to_element,
                                  scroll_fault, fault))
    /\ LET outcome == ClickOutcome(page, frame.element, fault)
       IN IF outcome = "ok"
            THEN /\ Return("True")
                 /\ frame' = [frame EXCEPT !.attempt = @ + 1]
                 /\ UNCHANGED <<statistics, nfinds>>
            ELSE AttemptFailed(outcome)
    /\ UNCHANGED <<page, siblings, field, call, file, restored, attributes, manager>>

\* an attempt that goes on to clear and type whatever the click returned
FocusedAnyway(clicked) == TRUE

\* lines 282-283: `if not self.safe_click(...): continue`
Focused(clicked) == clicked

\* safe_send_keys focuses the element with safe_click(element): one
\* iteration of that click's loop.  It resolves to the same handle again
\* after a stale reference, and gives up after DefaultRetryCount retries,
\* which ends the current iteration of safe_send_keys
SendKeysFocus ==
  \E fault \in ClickFaults, scroll_fault \in BOOLEAN :
    /\ pc = SAFE_SEND_KEYS
    /\ trace' = Record((IF frame.inner = 0 THEN << >> ELSE trace.steps)
                         \o ClickSteps(page, frame.element, TRUE, scroll_fault, fault))
    /\ LET outcome == ClickOutcome(page, frame.element, fault)
           counted == [statistics EXCEPT !.retry_counts["click"] =
                                            @ + DefaultRetryCount]
       IN IF outcome = "ok"
            THEN /\ pc' = TYPING
                 /\ frame' = [frame EXCEPT !.inner = 0]
                 /\ ret' = NoRet
                 /\ UNCHANGED <<statistics, nfinds>>
            ELSE IF frame.inner + 1 = Attempts(DefaultRetryCount)
              THEN IF Focused(FALSE)
                     THEN /\ pc' = TYPING
                          /\ statistics' = counted
                          /\ frame' = [frame EXCEPT !.inner = 0]
                          /\ ret' = NoRet
                          /\ nfinds' = nfinds
                     ELSE /\ nfinds' = nfinds
                          /\ NextAttempt(counted, frame.element)
              ELSE /\ frame' = [frame EXCEPT !.inner = @ + 1]
                   /\ UNCHANGED <<statistics, pc, ret, nfinds>>
    /\ UNCHANGED <<page, siblings, field, call, file, restored, attributes, manager>>

\* safe_send_keys clears (when clear_first) and types
SendKeysType ==
  \E fault \in TypeFaults, failed \in 1..Len(Keystrokes(call.text, call.clear_first)) :
    /\ pc = TYPING
    /\ LET outcome == TypeOutcome(frame.element, fault)
           keys == Keystrokes(call.text, call.clear_first)
           sel == frame.element.sel
           done == IF outcome = "ok" THEN Len(keys)
                   ELSE IF outcome = "stale" THEN 0 ELSE failed - 1
       IN /\ field' = IF field[sel].input
                         THEN [field EXCEPT ![sel].value = Typed(@, keys, done)]
                         ELSE field
          /\ trace' = Record(trace.steps \o TypeSteps(keys, done))
          /\ IF outcome = "ok"
               THEN /\ Return("True")
                    /\ frame' = [frame EXCEPT !.attempt = @ + 1]
                    /\ UNCHANGED <<statistics, nfinds>>
               ELSE AttemptFailed(outcome)
    /\ UNCHANGED <<page, siblings, call, file, restored, attributes, manager>>

\* one iteration of safe_get_text's loop
GetTextAttempt ==
  \E rendered \in Texts, innerText \in Texts, textContent \in Texts,
     fault \in {"ok", "error"} :
    /\ pc = SAFE_GET_TEXT
    /\ LET text == GetTextResult(rendered, innerText, textContent)
           outcome == IF frame.element.stale THEN "stale"
                      ELSE IF fault = "error" THEN "error"
                      ELSE IF text = "none" THEN "empty" ELSE "ok"
       IN IF outcome = "ok"
            THEN /\ ret' = [NoRet EXCEPT !.kind = "return", !.value = text,
                                         !.sources = <<rendered, innerText, textContent>>]
                 /\ pc' = "returned"
                 /\ frame' = [frame EXCEPT !.attempt = @ + 1]
                 /\ UNCHANGED <<statistics, nfinds>>
            ELSE AttemptFailed(outcome)
    /\ UNCHANGED <<page, siblings, field, trace, call, file, restored, attributes, manager>>

\* While an operation runs the page changes under it: the node of a selector
\* changes state, is removed or is replaced by a new node; a handle to a
\* removed or replaced node is stale from then on
PageChange ==
  \E s \in Selectors, st \in ElemStates, replaced \in BOOLEAN :
  \E value \in InitialValues \cup {field[s].value} :
    /\ pc \in SafeOps \cup {TYPING, WAITING}
    /\ value # field[s].value =>
         /\ field[s].input
         /\ replaced \/ page[s] \in {"absent", "invalid"}
    /\ field' = [field EXCEPT ![s].value = value]
    /\ frame.changes < MaxChanges
    /\ st \in {"absent", "invalid"} => ~replaced
    /\ page[s] # st \/ replaced
    /\ page' = [page EXCEPT ![s] = st]
    /\ siblings' = IF st \in {"absent", "invalid"}
                     THEN [siblings EXCEPT ![s] = <<>>]
                     ELSE siblings
    /\ frame' = IF frame.element.sel = s /\ (replaced \/ st \in {"absent", "invalid"})
                  THEN [frame EXCEPT !.element.stale = TRUE, !.changes = @ + 1]
                  ELSE [frame EXCEPT !.changes = @ + 1]
    /\ UNCHANGED <<statistics, pc, call, ret, nfinds, file, restored, trace, attributes, manager>>

(***************************************************************************)
(* wait_for_element_to_disappear                                           *)
(***************************************************************************)
\* one timeout for the whole list: the polls already made count against the
\* next selector
SharedWindow(polls) == polls

\* each selector gets a WebDriverWait of its own: no poll made yet
OwnWindow(polls) == 0

\* what one poll of until_not(presence_of_element_located) does: find_element
\* raises NoSuchElementException when no node matches, which until_not takes
\* for success; a selector the driver rejects raises out of the wait; a node
\* found keeps the wait polling
PollOutcome(pg, selector) ==
  IF pg[selector] = "absent" THEN "gone"
  ELSE IF pg[selector] = "invalid" THEN "InvalidSelectorException"
  ELSE "present"

\* wait_for_element_to_disappear(selectors): with an empty list the loop
\* body never runs.  In frame, attempt counts the selectors done with and
\* inner the polls made on the current one
WaitForElementToDisappear ==
  \E selectors \in SelectorLists :
    /\ pc = "idle"
    /\ call' = [Idle EXCEPT !.op = WAITING, !.selectors = selectors]
    /\ frame' = NoFrame
    /\ IF selectors = <<>>
         THEN ret' = [NoRet EXCEPT !.kind = "return", !.value = "False"]
                /\ pc' = "returned"
         ELSE ret' = NoRet /\ pc' = WAITING
    /\ UNCHANGED <<page, siblings, field, trace, statistics, nfinds, file, restored, attributes, manager>>

\* the current selector is done with: TimeoutException or another exception,
\* both caught, and the loop goes to the next selector or ends
NextSelector ==
  IF frame.attempt + 1 = Len(call.selectors)
    THEN /\ frame' = [frame EXCEPT !.attempt = @ + 1, !.inner = OwnWindow(frame.inner)]
         /\ ret' = [NoRet EXCEPT !.kind = "return", !.value = "False"]
         /\ pc' = "returned"
    ELSE /\ frame' = [frame EXCEPT !.attempt = @ + 1, !.inner = OwnWindow(frame.inner)]
         /\ UNCHANGED <<ret, pc>>

\* one poll of the wait on the current selector
WaitPoll ==
  /\ pc = WAITING
  /\ LET selector == call.selectors[frame.attempt + 1]
         outcome == PollOutcome(page, selector)
     IN IF outcome = "gone"
          THEN /\ ret' = [NoRet EXCEPT !.kind = "return", !.value = "True",
                                       !.selector = selector]
               /\ pc' = "returned"
               /\ UNCHANGED frame
          ELSE IF outcome = "present" /\ frame.inner + 1 < MaxPolls
            THEN /\ frame' = [frame EXCEPT !.inner = @ + 1]
                 /\ UNCHANGED <<ret, pc>>
            ELSE NextSelector
  /\ UNCHANGED <<page, siblings, field, trace, statistics, call, nfinds, file, restored, attributes, manager>>

NextSafe ==
  \/ SafeClick \/ SafeSendKeys \/ SafeGetText
  \/ ClickAttempt \/ SendKeysFocus \/ SendKeysType \/ GetTextAttempt
  \/ PageChange \/ Continue

SpecSafe == Init /\ [][NextSafe]_vars

\* the finder searching and running safe operations on a page that stays
\* as it is
NextOperations ==
  \/ Find \/ FindAll
  \/ SafeClick \/ SafeSendKeys \/ SafeGetText
  \/ ClickAttempt \/ SendKeysFocus \/ SendKeysType \/ GetTextAttempt
  \/ Continue

SpecOperations == Init /\ [][NextOperations]_vars

\* the finder clicking and typing on a page that stays as it is, the steps
\* of every attempt recorded
InitSteps ==
  /\ page \in Pages
  /\ field = NoFields
  /\ trace = Traced
  /\ attributes = DefaultAttributes
  /\ statistics = InitStatistics
  /\ pc = "idle"
  /\ call = Idle
  /\ frame = NoFrame
  /\ ret = NoRet
  /\ nfinds = 0
  /\ file = NoFile
  /\ restored = InitStatistics
  /\ drivers = NoDrivers
  /\ processes = <<>>
  /\ environ = [v \in EnvNames |-> "unset"]
  /\ global_settings = [headless |-> "absent"]
  /\ config = ConfigOf(global_settings)
  /\ siblings = NoSiblings

NextSteps ==
  \/ SafeClick \/ SafeSendKeys
  \/ ClickAttempt \/ SendKeysFocus \/ SendKeysType
  \/ Continue

SpecSteps == InitSteps /\ [][NextSteps]_vars

\* the finder typing on a changing page whose h1 is an editable heading
Fields ==
  {[NoFields EXCEPT !["h1"] = [input |-> TRUE, value |-> v]] : v \in InitialValues}

InitTyping ==
  /\ page \in Pages
  /\ field \in Fields
  /\ trace = NoTrace
  /\ attributes = DefaultAttributes
  /\ statistics = InitStatistics
  /\ pc = "idle"
  /\ call = Idle
  /\ frame = NoFrame
  /\ ret = NoRet
  /\ nfinds = 0
  /\ file = NoFile
  /\ restored = InitStatistics
  /\ drivers = NoDrivers
  /\ processes = <<>>
  /\ environ = [v \in EnvNames |-> "unset"]
  /\ global_settings = [headless |-> "absent"]
  /\ config = ConfigOf(global_settings)
  /\ siblings = NoSiblings

NextTyping ==
  SafeSendKeys \/ SendKeysFocus \/ SendKeysType \/ PageChange \/ Continue

SpecTyping == InitTyping /\ [][NextTyping]_vars

(***************************************************************************)
(* WebDriverManager.human_like_typing(element, text)                       *)
(***************************************************************************)
HUMAN_LIKE_TYPING == "human_like_typing"

\* the characters of the texts typed
Chars == {"n", "e"}

\* random.choice('abcdefghijklmnopqrstuvwxyz'): a letter of the text or
\* another one
WrongChars == {"a", "n"}

\* a typo before any character
MayMistypeAnywhere(i) == TRUE

\* `and i > 0`: whether a typo may come before the character at index i
MayMistype(i) == i > 0

\* the send_keys calls of the loop iteration for text[i], i counted from 0:
\* with typo, the wrong character and BACKSPACE come before the character
IterationKeys(text, i, typo, wrong_char) ==
  (IF typo /\ MayMistype(i)
     THEN << [key |-> wrong_char, wrong |-> TRUE, i |-> i],
             [key |-> "BACKSPACE", wrong |-> FALSE, i |-> i] >>
     ELSE << >>)
  \o << [key |-> text[i + 1], wrong |-> FALSE, i |-> i] >>

\* the calls made when the failed-th of them raises (0: none does); ok tells
\* whether the element received the key
Issued(keys, failed) ==
  [j \in 1..(IF failed = 0 THEN Len(keys) ELSE failed) |->
     [key |-> keys[j].key, wrong |-> keys[j].wrong, i |-> keys[j].i, ok |-> j # failed]]

\* the except clause: element.send_keys(text), the characters of the whole
\* text in one call
Fallback(text, ok) ==
  [j \in 1..Len(text) |-> [key |-> text[j], wrong |-> FALSE, i |-> j - 1, ok |-> ok]]

\* the field after the keys of the log it received
RECURSIVE Received(_, _)
Received(value, log) ==
  IF log = <<>> THEN value
  ELSE LET before == Received(value, SubSeq(log, 1, Len(log) - 1))
           last == log[Len(log)]
       IN IF last.ok THEN Press(before, last.key) ELSE before

\* human_like_typing is called on an element of the page; the model stops
\* typing into a field that holds MaxText characters
HumanLikeTyping ==
  \E element \in Handles(page) \ {None}, text \in SeqsUpTo(Chars, MaxText) :
    /\ pc = "idle"
    /\ Len(field[element.sel].value) < MaxText
    /\ call' = [Idle EXCEPT !.op = HUMAN_LIKE_TYPING, !.target = "element",
                             !.element = element, !.text = text]
    /\ frame' = [NoFrame EXCEPT !.element = element]
    /\ ret' = NoRet
    /\ pc' = HUMAN_LIKE_TYPING
    /\ UNCHANGED <<page, siblings, field, trace, statistics, nfinds, file, restored, attributes, manager>>

\* one iteration of the loop, or its end.  send_keys raises on a stale
\* element and whenever the driver fails; the first exception ends the loop
\* and the except clause sends the whole text, whose exception goes to the
\* caller
TypeCharacter ==
  \E typo \in BOOLEAN, wrong_char \in WrongChars, failed \in 0..3,
     fallback_ok \in BOOLEAN :
    /\ pc = HUMAN_LIKE_TYPING
    /\ LET i == frame.attempt
           sel == frame.element.sel
       IN IF i = Len(call.text)
            THEN /\ Return("None")
                 /\ UNCHANGED <<frame, field>>
            ELSE LET keys == IterationKeys(call.text, i, typo, wrong_char)
                     raised == IF frame.element.stale THEN 1 ELSE failed
                     again_ok == fallback_ok /\ ~frame.element.stale
                     log == Issued(keys, raised)
                              \o (IF raised = 0 THEN << >>
                                  ELSE Fallback(call.text, again_ok))
                 IN /\ failed <= Len(keys)
                    /\ frame' = [frame EXCEPT !.attempt = @ + 1,
                                              !.sent = @ \o log]
                    /\ field' = IF field[sel].input
                                  THEN [field EXCEPT ![sel].value = Received(@, log)]
                                  ELSE field
                    /\ IF raised = 0
                         THEN UNCHANGED <<pc, ret>>
                         ELSE IF again_ok
                           THEN Return("None")
                           ELSE /\ ret' = [NoRet EXCEPT !.kind = "WebDriverException"]
                                /\ pc' = "returned"
    /\ UNCHANGED <<page, siblings, trace, statistics, call, nfinds, file, restored, attributes, manager>>

NextHuman == HumanLikeTyping \/ TypeCharacter \/ Continue

SpecHuman == InitTyping /\ [][NextHuman]_vars

\* the finder waiting for elements to disappear from a changing page
NextWait == WaitForElementToDisappear \/ WaitPoll \/ PageChange \/ Continue

SpecWait == Init /\ [][NextWait]_vars

(***************************************************************************)
(* Keeping the statistics: reset_statistics, save_statistics and           *)
(* load_statistics.                                                        *)
(***************************************************************************)
\* self.__init__(self.driver, self.default_timeout) without the timing block
ReinitializeCountersOnly(stats) == [InitStatistics EXCEPT !.timing = stats.timing]

\* self.__init__(self.driver, self.default_timeout)
Reinitialize(stats) == InitStatistics

\* self.__init__(self.driver)
ReassignedDefault(attrs) == [driver |-> attrs.driver, default_timeout |-> DefaultTimeout]

\* self.__init__(self.driver, self.default_timeout): lines 60-61 assign the
\* two arguments
Reassigned(attrs) == [driver |-> attrs.driver, default_timeout |-> attrs.default_timeout]

\* reset_statistics, called on its own or after the statistics were saved
ResetStatistics ==
  /\ pc \in {"idle", "saved"}
  /\ statistics' = Reinitialize(statistics)
  /\ attributes' = Reassigned(attributes)
  /\ nfinds' = 0
  /\ call' = [Idle EXCEPT !.op = RESET]
  /\ ret' = [NoRet EXCEPT !.kind = "return", !.value = "None"]
  /\ pc' = "returned"
  /\ UNCHANGED <<page, siblings, field, trace, frame, file, restored, manager>>

\* save_statistics(filepath): the file is written, or the write fails and
\* False is returned
SaveStatistics ==
  \E written \in BOOLEAN :
    /\ pc = "idle"
    /\ call' = [Idle EXCEPT !.op = SAVE]
    /\ IF written
         THEN /\ file' = [exists |-> TRUE, content |-> JsonDump(statistics)]
              /\ ret' = [NoRet EXCEPT !.kind = "return", !.value = "True"]
              /\ pc' = "saved"
         ELSE /\ file' = file
              /\ ret' = [NoRet EXCEPT !.kind = "return", !.value = "False"]
              /\ pc' = "returned"
    /\ UNCHANGED <<page, siblings, field, trace, statistics, frame, nfinds, restored, attributes, manager>>

\* what can go wrong inside load_statistics: open raises (the file is
\* missing or cannot be read), json.load raises (what the file holds by now
\* is not valid JSON)
LoadFaults == {"none", "open", "decode"}

\* a load that leaves a finder with fresh statistics when it fails
LoadedOrFresh(stats, doc, fault) ==
  IF fault = "none" THEN JsonLoad(doc) ELSE InitStatistics

\* lines 508-510: self.statistics = json.load(f) assigns once json.load has
\* returned; when open or json.load raises nothing is assigned
Loaded(stats, doc, fault) ==
  IF fault = "none" THEN JsonLoad(doc) ELSE stats

\* after a save, a finder constructed afresh runs load_statistics(filepath):
\* its statistics become what the file holds, or the read fails and False is
\* returned
LoadStatistics ==
  \E fault \in LoadFaults :
    /\ pc = "saved"
    /\ ~file.exists => fault = "open"
    /\ call' = [Idle EXCEPT !.op = LOAD, !.fault = fault]
    /\ restored' = Loaded(restored, file.content, fault)
    /\ ret' = [NoRet EXCEPT !.kind = "return",
                            !.value = IF fault = "none" THEN "True" ELSE "False"]
    /\ pc' = "returned"
    /\ UNCHANGED <<page, siblings, field, trace, statistics, frame, nfinds, file, attributes, manager>>

\* the finder that saved runs load_statistics(filepath) itself: its
\* statistics become what the file holds, or the read fails and False is
\* returned
LoadStatisticsBack ==
  \E fault \in LoadFaults :
    /\ pc = "saved"
    /\ ~file.exists => fault = "open"
    /\ call' = [Idle EXCEPT !.op = LOAD, !.fault = fault]
    /\ statistics' = Loaded(statistics, file.content, fault)
    /\ ret' = [NoRet EXCEPT !.kind = "return",
                            !.value = IF fault = "none" THEN "True" ELSE "False"]
    /\ pc' = "returned"
    /\ UNCHANGED <<page, siblings, field, trace, frame, nfinds, file, restored, attributes, manager>>

LOG_STATISTICS == "log_search_statistics"

\* lines 444-456: a selector's success rate divides by its attempts
RateRaises(stats) ==
  \E s \in DOMAIN stats.selector_usage : stats.selector_usage[s].attempts = 0

\* log_search_statistics(): the statistics are read and written to the log
LogSearchStatistics ==
  /\ pc = "idle"
  /\ call' = [Idle EXCEPT !.op = LOG_STATISTICS]
  /\ ret' = [NoRet EXCEPT !.kind = IF RateRaises(statistics) THEN "ZeroDivisionError"
                                   ELSE "return",
                          !.value = "None"]
  /\ pc' = "returned"
  /\ UNCHANGED <<page, siblings, field, trace, statistics, frame, nfinds, file,
                 restored, attributes, manager>>

NextStatistics ==
  \/ SafeClick \/ SafeSendKeys \/ SafeGetText
  \/ ClickAttempt \/ SendKeysFocus \/ SendKeysType \/ GetTextAttempt
  \/ PageChange
  \/ ResetStatistics \/ SaveStatistics \/ LoadStatistics
  \/ Continue

SpecStatistics == Init /\ [][NextStatistics]_vars

\* a finder searching, its statistics logged, saved and loaded
NextKeeping ==
  \/ Find
  \/ SaveStatistics \/ LoadStatisticsBack \/ LogSearchStatistics
  \/ Continue

SpecKeeping == Init /\ [][NextKeeping]_vars

\* a finder bound to some session with some timeout, searching and
\* resetting its statistics
InitReset ==
  /\ page \in Pages
  /\ field = NoFields
  /\ trace = NoTrace
  /\ attributes \in [driver : Sessions, default_timeout : Timeouts]
  /\ statistics = InitStatistics
  /\ pc = "idle"
  /\ call = Idle
  /\ frame = NoFrame
  /\ ret = NoRet
  /\ nfinds = 0
  /\ file = NoFile
  /\ restored = InitStatistics
  /\ drivers = NoDrivers
  /\ processes = <<>>
  /\ environ = [v \in EnvNames |-> "unset"]
  /\ global_settings = [headless |-> "absent"]
  /\ config = ConfigOf(global_settings)
  /\ siblings = NoSiblings

NextReset == Find \/ ResetStatistics \/ Continue

SpecReset == InitReset /\ [][NextReset]_vars

(***************************************************************************)
(* WebDriverManager: create_driver and cleanup_driver.                     *)
(***************************************************************************)
\* the manager is constructed from a configuration, in some environment
InitManager ==
  /\ page = [s \in Selectors |-> "absent"]
  /\ statistics = InitStatistics
  /\ pc = "idle"
  /\ call = Idle
  /\ frame = NoFrame
  /\ ret = NoRet
  /\ nfinds = 0
  /\ file = NoFile
  /\ restored = InitStatistics
  /\ drivers = NoDrivers
  /\ processes = <<>>
  /\ environ \in [EnvNames -> EnvValues]
  /\ global_settings \in [headless : HeadlessSettings]
  /\ config = ConfigOf(global_settings)
  /\ siblings = NoSiblings
  /\ field = NoFields
  /\ trace = NoTrace
  /\ attributes = DefaultAttributes

\* what can go wrong inside create_driver: making the profile directory,
\* starting the browser, the stealth script (swallowed), sizing the window
CreateFaults == {"none", "options", "start", "stealth", "window_size"}

\* a browser started with these options
Started(options) ==
  [headless |-> "--headless=new" \in options,
   state |-> "running", quit_called |-> FALSE, returned |-> FALSE]

\* self.drivers[service_name] = driver
Track(tracked, service_name, driver) ==
  [s \in DOMAIN tracked \cup {service_name} |->
     IF s = service_name THEN driver ELSE tracked[s]]

\* the except clause of setup_stealth_mode left out
StealthRaises(fault) == IF fault = "stealth" THEN "WebDriverException" ELSE "none"

\* setup_stealth_mode(driver): its whole body is in a try block whose except
\* clause logs a warning, so no exception leaves it
SetupStealthMode(fault) == "none"

\* the exception raised inside the try block of create_driver, "none" when
\* every step went through
Raised(service_name, fault) ==
  IF service_name \notin Services THEN "DriverInitializationError"
  ELSE IF fault = "options" THEN "OSError"
  ELSE IF fault = "start" THEN "WebDriverException"
  ELSE IF SetupStealthMode(fault) # "none" THEN SetupStealthMode(fault)
  ELSE IF fault = "window_size" THEN "WebDriverException"
  ELSE "none"

\* the exception going on as it is
WrapNothing(exception) == exception

\* except Exception as e: raise DriverInitializationError(service_name, e)
Wrap(exception) == "DriverInitializationError"

\* create_driver(service_name, headless): every failure leaves as
\* DriverInitializationError; a failure after uc.Chrome returned leaves the
\* browser running
CreateDriver ==
  \E service_name \in ServiceNames, headless \in HeadlessArguments,
     fault \in CreateFaults :
    /\ pc = "idle"
    /\ Len(processes) < MaxDrivers
    /\ call' = [Idle EXCEPT !.op = CREATE_DRIVER, !.service_name = service_name,
                             !.headless = headless, !.fault = fault]
    /\ LET options == ProfileOptions(service_name, headless, environ, global_settings)
           driver == Len(processes) + 1
           exception == Raised(service_name, fault)
           started == service_name \in Services /\ fault \notin {"options", "start"}
       IN IF exception # "none"
            THEN /\ processes' = IF started THEN Append(processes, Started(options))
                                 ELSE processes
                 /\ ret' = [NoRet EXCEPT !.kind = Wrap(exception)]
                 /\ UNCHANGED drivers
            ELSE /\ processes' = Append(processes,
                                        [Started(options) EXCEPT !.returned = TRUE])
                 /\ drivers' = Track(drivers, service_name, driver)
                 /\ ret' = [NoRet EXCEPT !.kind = "return", !.driver = driver,
                                         !.options = options]
    /\ pc' = "returned"
    /\ UNCHANGED <<finder, environ, global_settings, config>>

\* the browsers a caller holds a driver for, and None
Held == {NoDriver} \cup {d \in 1..Len(processes) : processes[d].returned}

\* the for loop left out
UntrackNothing(tracked, driver) == tracked

\* the for loop of cleanup_driver: the first entry tracking the driver goes
Untrack(tracked, driver) ==
  LET found == {s \in DOMAIN tracked : tracked[s] = driver}
  IN IF found = {} THEN tracked
     ELSE LET gone == CHOOSE s \in found : TRUE
          IN [s \in DOMAIN tracked \ {gone} |-> tracked[s]]

\* what can go wrong inside cleanup_driver: quit raises with the browser
\* still running ("quit"), or raises after the browser has ended
CleanupFaults == {"none", "quit", "quit_ended"}

\* cleanup_driver(driver): an exception of quit is logged and the call returns
CleanupDriver ==
  \E driver \in Held, fault \in CleanupFaults :
    /\ pc = "idle"
    /\ driver = NoDriver => fault = "none"
    /\ call' = [Idle EXCEPT !.op = CLEANUP_DRIVER, !.driver = driver,
                             !.fault = fault]
    /\ IF driver = NoDriver
         THEN UNCHANGED <<drivers, processes>>
         ELSE /\ processes' =
                   [processes EXCEPT ![driver].quit_called = TRUE,
                                     ![driver].state = IF fault = "quit" THEN @ ELSE "quit"]
              /\ drivers' = IF fault = "none" THEN Untrack(drivers, driver)
                            ELSE drivers
    /\ ret' = [NoRet EXCEPT !.kind = "return", !.value = "None"]
    /\ pc' = "returned"
    /\ UNCHANGED <<finder, environ, global_settings, config>>

NextManager == CreateDriver \/ CleanupDriver \/ Continue

SpecManager == InitManager /\ [][NextManager]_vars

(***************************************************************************)
(* WebDriverManager as a context manager: cleanup_all_drivers, __exit__.   *)
(***************************************************************************)
CLEANUP_ALL_DRIVERS == "cleanup_all_drivers"
EXIT == "__exit__"

\* the with body ended normally, or raised
BodyOutcomes == {"none", "Exception"}

\* a loop that ends at the first driver whose quit raises
QuitUntilFailure(procs, tracked, faults) ==
  [d \in DOMAIN procs |->
     IF /\ \E s \in DOMAIN tracked : tracked[s] = d
        /\ \A t \in DOMAIN tracked : tracked[t] < d => faults[t] = "none"
       THEN LET s == CHOOSE t \in DOMAIN tracked : tracked[t] = d
            IN [procs[d] EXCEPT !.quit_called = TRUE,
                                !.state = IF faults[s] = "quit" THEN @ ELSE "quit"]
       ELSE procs[d]]

\* cleanup_driver on each driver of list(self.drivers.items()): quit is
\* called on every one of them, whatever the earlier quits did
QuitAll(procs, tracked, faults) ==
  [d \in DOMAIN procs |->
     IF \E s \in DOMAIN tracked : tracked[s] = d
       THEN LET s == CHOOSE t \in DOMAIN tracked : tracked[t] = d
            IN [procs[d] EXCEPT !.quit_called = TRUE,
                                !.state = IF faults[s] = "quit" THEN @ ELSE "quit"]
       ELSE procs[d]]

\* self.drivers.clear() left out
ClearNothing(tracked) == tracked

\* self.drivers.clear()
Clear(tracked) == NoDrivers

\* the tracked map after cleanup_all_drivers: each cleanup_driver whose quit
\* succeeded deleted its entry, then the map is cleared
CleanupAll(tracked, faults) ==
  Clear([s \in {t \in DOMAIN tracked : faults[t] # "none"} |-> tracked[s]])

\* the drivers of a tracked map
Range(tracked) == {tracked[s] : s \in DOMAIN tracked}

\* cleanup_all_drivers()
CleanupAllDrivers ==
  \E faults \in [DOMAIN drivers -> CleanupFaults] :
    /\ pc = "idle"
    /\ call' = [Idle EXCEPT !.op = CLEANUP_ALL_DRIVERS]
    /\ processes' = QuitAll(processes, drivers, faults)
    /\ drivers' = CleanupAll(drivers, faults)
    /\ ret' = [NoRet EXCEPT !.kind = "return", !.value = "None",
                            !.cleaned = Range(drivers)]
    /\ pc' = "returned"
    /\ UNCHANGED <<finder, environ, global_settings, config>>

\* __exit__(exc_type, exc_val, exc_tb) at the end of a with block: it
\* returns False, so an exception of the body goes on to the caller
Exit ==
  \E exc_type \in BodyOutcomes, faults \in [DOMAIN drivers -> CleanupFaults] :
    /\ pc = "idle"
    /\ call' = [Idle EXCEPT !.op = EXIT, !.fault = exc_type]
    /\ processes' = QuitAll(processes, drivers, faults)
    /\ drivers' = CleanupAll(drivers, faults)
    /\ ret' = [NoRet EXCEPT !.kind = IF exc_type = "none" THEN "return" ELSE exc_type,
                            !.value = "False",
                            !.cleaned = Range(drivers)]
    /\ pc' = "returned"
    /\ UNCHANGED <<finder, environ, global_settings, config>>

\* a manager constructed in an environment without headless signals
InitContext ==
  /\ page = [s \in Selectors |-> "absent"]
  /\ statistics = InitStatistics
  /\ pc = "idle"
  /\ call = Idle
  /\ frame = NoFrame
  /\ ret = NoRet
  /\ nfinds = 0
  /\ file = NoFile
  /\ restored = InitStatistics
  /\ drivers = NoDrivers
  /\ processes = <<>>
  /\ environ = [v \in EnvNames |-> "unset"]
  /\ global_settings \in [headless : HeadlessSettings]
  /\ config = ConfigOf(global_settings)
  /\ siblings = NoSiblings
  /\ field = NoFields
  /\ trace = NoTrace
  /\ attributes = DefaultAttributes

NextContext ==
  CreateDriver \/ CleanupDriver \/ CleanupAllDrivers \/ Exit \/ Continue

SpecContext == InitContext /\ [][NextContext]_vars

(***************************************************************************)
(* WebDriverManager.__init__ and _load_config.                             *)
(***************************************************************************)
INIT == "__init__"

\* what can go wrong in the constructor besides the document itself: the
\* file cannot be opened, the profiles directory cannot be made
InitFaults == {"none", "open", "mkdir"}

\* the exception raised inside the try block of _load_config, "none" when
\* the document is returned: `section not in config` raises TypeError on
\* null and numbers, looks for a substring in a string, an item in an array
\* and a key in an object
LoadRaised(cfg, fault) ==
  IF cfg.kind = "missing" THEN "ConfigurationError"
  ELSE IF fault = "open" THEN "OSError"
  ELSE IF cfg.kind = "invalid" THEN "JSONDecodeError"
  ELSE IF cfg.kind \in {"null", "number"} THEN "TypeError"
  ELSE IF "global_settings" \notin cfg.names THEN "ConfigurationError"
  ELSE "none"

\* the except clauses of _load_config: both raise ConfigurationError, with
\* key json_parse for a JSONDecodeError and config_load for any other
\* exception, the ConfigurationErrors raised in the try block included
LoadConfig(cfg, fault) ==
  LET exception == LoadRaised(cfg, fault)
  IN IF exception = "none" THEN [kind |-> "return", key |-> ""]
     ELSE [kind |-> "ConfigurationError",
           key |-> IF exception = "JSONDecodeError" THEN "json_parse"
                   ELSE "config_load"]

\* WebDriverManager(config_path): _load_config, then
\* self.config.get('global_settings', {}), which only a dict has, then the
\* profiles directory
Construct ==
  \E fault \in InitFaults :
    /\ pc = "new"
    /\ call' = [Idle EXCEPT !.op = INIT, !.fault = fault]
    /\ LET loaded == LoadConfig(config, fault)
           exception ==
             IF loaded.kind # "return" THEN loaded.kind
             ELSE IF config.kind # "object" THEN "AttributeError"
             ELSE IF fault = "mkdir" THEN "OSError"
             ELSE "none"
       IN IF exception = "none"
            THEN /\ global_settings' = [headless |-> config.headless]
                 /\ ret' = [NoRet EXCEPT !.kind = "return"]
                 /\ pc' = "returned"
            ELSE /\ ret' = [NoRet EXCEPT !.kind = exception, !.value = loaded.key]
                 /\ pc' = "failed"
                 /\ UNCHANGED global_settings
    /\ UNCHANGED <<finder, drivers, processes, environ, config>>

\* before the constructor runs: some file, or none, is at config_path
InitConfig ==
  /\ page = [s \in Selectors |-> "absent"]
  /\ statistics = InitStatistics
  /\ pc = "new"
  /\ call = Idle
  /\ frame = NoFrame
  /\ ret = NoRet
  /\ nfinds = 0
  /\ file = NoFile
  /\ restored = InitStatistics
  /\ drivers = NoDrivers
  /\ processes = <<>>
  /\ environ = [v \in EnvNames |-> "unset"]
  /\ global_settings = [headless |-> "absent"]
  /\ config \in ConfigFiles
  /\ siblings = NoSiblings
  /\ field = NoFields
  /\ trace = NoTrace
  /\ attributes = DefaultAttributes

\* a manager whose constructor raised does not exist: nothing can be called
NextConfig == Construct \/ CreateDriver \/ CleanupDriver \/ Continue

SpecConfig == InitConfig /\ [][NextConfig]_vars

(***************************************************************************)
(* Claims about find_element_with_fallback.                                *)
(***************************************************************************)
\* the positions of the list whose selector satisfies the strategy's
\* predicate on the page
Matching(pg, selectors, strategy) ==
  {i \in 1..Len(selectors) :
     /\ pg[selectors[i]] # "invalid"
     /\ StrategyPredicate(pg[selectors[i]], strategy)}

Least(S) == CHOOSE i \in S : \A j \in S : i <= j

\* successes recorded for a selector, 0 when it has no entry yet
SelectorSuccesses(stats, s) ==
  IF s \in DOMAIN stats.selector_usage THEN stats.selector_usage[s].successes ELSE 0

\* C1: when some selector of the list matches, find_element_with_fallback
\* returns the earliest matching selector with its element, and the
\* selectors it tested are exactly the list up to that selector
C1_FirstMatchWins ==
  (pc = "returned" /\ call.op = FIND
     /\ Matching(page, call.selectors, call.strategy) # {}) =>
    LET k == Least(Matching(page, call.selectors, call.strategy))
    IN /\ ret.kind = "return"
       /\ ret.selector = call.selectors[k]
       /\ ret.element = [sel |-> call.selectors[k], stale |-> FALSE]
       /\ ret.tested = SubSeq(call.selectors, 1, k)

\* a search that fell back: the first selector failed, the second matched
C1_Witness ==
  /\ pc = "returned" /\ call.op = FIND /\ ret.kind = "return"
  /\ Len(call.selectors) = 2 /\ call.selectors[1] # call.selectors[2]
  /\ ret.selector = call.selectors[2]
  /\ ret.tested = call.selectors

\* C2: when no selector of the list matches (the empty list included), the
\* search raises SelectorNotFoundError carrying the input list, after testing
\* every selector, and failed_searches grows by one while successful_searches
\* stays
C2_AllFailRaises ==
  [][(pc' = "returned" /\ call'.op = FIND
        /\ Matching(page', call'.selectors, call'.strategy) = {}) =>
       /\ ret'.kind = "SelectorNotFoundError"
       /\ ret'.selectors_tried = call'.selectors
       /\ ret'.tested = call'.selectors
       /\ statistics'.failed_searches = statistics.failed_searches + 1
       /\ statistics'.successful_searches = statistics.successful_searches]_vars

\* a second failed search over a two-selector list
C2_Witness ==
  /\ pc = "returned" /\ call.op = FIND /\ ret.kind = "SelectorNotFoundError"
  /\ Len(ret.selectors_tried) = 2
  /\ statistics.failed_searches = 2

\* C3: after N completed find_element_with_fallback calls on a fresh finder,
\* successful_searches + failed_searches = total_searches = N
C3_SearchCountsAddUp ==
  /\ statistics.successful_searches + statistics.failed_searches
       = statistics.total_searches
  /\ statistics.total_searches = nfinds

\* two calls made, one found and one failed
C3_Witness ==
  /\ nfinds = 2
  /\ statistics.successful_searches = 1
  /\ statistics.failed_searches = 1

\* C4: a search that returns selector s under strategy g adds exactly one to
\* successful_searches, to s's successes and to g's successes, leaves
\* failed_searches and every other selector's and strategy's successes alone;
\* a search that raises changes no success counter
C4_StatisticsReflectOutcome ==
  [][(pc' = "returned" /\ call'.op = FIND) =>
       /\ ret'.kind = "return" =>
            /\ statistics'.successful_searches = statistics.successful_searches + 1
            /\ statistics'.failed_searches = statistics.failed_searches
            /\ \A s \in Selectors :
                 SelectorSuccesses(statistics', s)
                   = SelectorSuccesses(statistics, s) + (IF s = ret'.selector THEN 1 ELSE 0)
            /\ \A g \in FindStrategy :
                 statistics'.strategy_success_rate[g].successes
                   = statistics.strategy_success_rate[g].successes
                       + (IF g = call'.strategy THEN 1 ELSE 0)
       /\ ret'.kind = "SelectorNotFoundError" =>
            /\ statistics'.successful_searches = statistics.successful_searches
            /\ \A s \in Selectors :
                 SelectorSuccesses(statistics', s) = SelectorSuccesses(statistics, s)
            /\ \A g \in FindStrategy :
                 statistics'.strategy_success_rate[g].successes
                   = statistics.strategy_success_rate[g].successes]_vars

\* a second success of the same selector
C4_Witness ==
  /\ pc = "returned" /\ call.op = FIND /\ ret.kind = "return"
  /\ statistics.successful_searches = 2
  /\ statistics.selector_usage[ret.selector].successes = 2

\* C5: every search call, find_element_with_fallback or
\* find_elements_with_fallback, adds exactly one to total_searches
C5_EverySearchCounted ==
  [][(pc' = "returned" /\ call'.op \in {FIND, FIND_ALL}) =>
       statistics'.total_searches = statistics.total_searches + 1]_vars

(***************************************************************************)
(* Claims about the safe operations.                                       *)
(***************************************************************************)
InOperation == pc \in SafeOps \cup {TYPING}

\* a safe operation has ended after entering its loop, and no iteration
\* succeeded
EveryAttemptFailed ==
  /\ pc = "returned" /\ call.op \in SafeOps
  /\ frame.element # None
  /\ ~(ret.kind = "return" /\ ret.value # Failure(call.op))

\* C6 as stated: whenever every attempt of a safe operation with retry count
\* R fails, its loop has run exactly R+1 times and the call returns False
\* (click, send_keys) or None (get_text)
C6_AlwaysFailureValueAfterAllAttempts ==
  EveryAttemptFailed =>
    /\ ret.kind = "return" /\ ret.value = Failure(call.op)
    /\ frame.attempt = call.retry_count + 1

\* steps an operation has taken, counted so that every step of the operation
\* adds to it
Progress ==
  frame.attempt * (DefaultRetryCount + 3)
    + (IF pc = TYPING THEN DefaultRetryCount + 2 ELSE frame.inner)

C6_Outcome ==
  /\ InOperation =>
       /\ frame.attempt <= call.retry_count
       /\ frame.inner <= DefaultRetryCount
  /\ EveryAttemptFailed =>
       /\ frame.attempt <= call.retry_count + 1
       /\ \/ /\ ret.kind = "return" /\ ret.value = Failure(call.op)
             /\ frame.attempt = call.retry_count + 1
          \/ /\ ret.kind = "SelectorNotFoundError"
             /\ call.target = "selectors"
             /\ ret.selectors_tried = call.selectors
             /\ frame.element.stale
             /\ Matching(page, call.selectors, PRESENCE) = {}

C6_Step ==
  (InOperation /\ frame'.changes = frame.changes) =>
    \/ pc' = "returned"
    \/ InOperation' /\ Progress' > Progress

\* C6 (amended): when every attempt of a safe operation with retry count R
\* fails, the loop runs exactly R+1 times and the call returns False (click,
\* send_keys) or None (get_text), except that a selector-list target whose
\* element went stale and whose selectors no longer match raises
\* SelectorNotFoundError from the re-resolve, within the R+1 iterations; no
\* call runs more than R+1 iterations, and every step of an operation either
\* ends it or advances a bounded count, so none runs forever
C6_ExhaustsOrPropagates == []C6_Outcome /\ [][C6_Step]_vars

\* safe_send_keys gave up after retrying: every focusing click failed
C6_Witness ==
  /\ EveryAttemptFailed
  /\ call.op = SAFE_SEND_KEYS /\ call.retry_count = 1
  /\ frame.attempt = 2
  /\ ret.value = "False"
  /\ statistics.retry_counts["send_keys"] = 1
  /\ statistics.retry_counts["click"] = 2 * DefaultRetryCount

(***************************************************************************)
(* Claims about keeping the statistics.                                    *)
(***************************************************************************)
\* C7: save_statistics followed by load_statistics on a fresh finder gives
\* that finder statistics equal to the original's, for every statistics the
\* searches and safe operations reach, the initial one with the infinity
\* sentinel included
C7_SaveLoadRoundTrip ==
  (pc = "returned" /\ call.op = LOAD /\ ret.value = "True") =>
    /\ restored = statistics
    /\ JsonLoad(JsonDump(statistics)) = statistics

\* a round trip of statistics with successes, a failure, retries and a
\* fractional average
C7_Witness ==
  /\ pc = "returned" /\ call.op = LOAD /\ ret.value = "True"
  /\ restored = statistics
  /\ statistics.successful_searches >= 2
  /\ statistics.failed_searches >= 1
  /\ statistics.retry_counts["click"] >= 1
  /\ statistics.timing.average_search_time[2] > 1
  /\ statistics.timing.fastest_search # Inf

\* C8: after reset_statistics every counter is zero, selector_usage is empty,
\* slowest_search and average_search_time are 0 and fastest_search is the
\* infinity sentinel: the statistics of a freshly constructed finder
C8_ResetRestoresInitial ==
  (pc = "returned" /\ call.op = RESET) =>
    /\ statistics.total_searches = 0
    /\ statistics.successful_searches = 0
    /\ statistics.failed_searches = 0
    /\ DOMAIN statistics.selector_usage = {}
    /\ \A g \in FindStrategy :
         /\ statistics.strategy_success_rate[g].attempts = 0
         /\ statistics.strategy_success_rate[g].successes = 0
    /\ \A k \in RetryKinds : statistics.retry_counts[k] = 0
    /\ statistics.timing.slowest_search = Zero
    /\ statistics.timing.average_search_time = Zero
    /\ statistics.timing.fastest_search = Inf
    /\ statistics = InitStatistics

\* a reset of statistics that had been saved with searches, a failure and
\* retries in them
C8_Witness ==
  /\ pc = "returned" /\ call.op = RESET
  /\ file.exists
  /\ ParseInt(file.content.successful_searches) >= 1
  /\ ParseInt(file.content.failed_searches) >= 1
  /\ ParseInt(file.content.retry_counts["get_text"]) >= 1
  /\ ParseFloat(file.content.timing.fastest_search) # Inf
  /\ statistics = InitStatistics

(***************************************************************************)
(* Claims about the driver manager.                                        *)
(***************************************************************************)
Created == pc = "returned" /\ call.op = CREATE_DRIVER /\ ret.kind = "return"

Tracked(tracked, driver) == \E s \in DOMAIN tracked : tracked[s] = driver

\* C10 as stated: after a call of cleanup_driver on a driver, the call has
\* returned normally, the driver has been asked to quit and it is no longer
\* tracked
C10_UntrackedAfterOneCall ==
  (pc = "returned" /\ call.op = CLEANUP_DRIVER /\ call.driver # NoDriver) =>
    /\ ret.kind = "return"
    /\ processes[call.driver].quit_called
    /\ ~Tracked(drivers, call.driver)

\* C10 (amended): cleanup_driver never raises and asks the driver to quit;
\* after a call whose quit succeeds the driver is no longer tracked and the
\* other entries are as before; a call whose quit raises, a call with no
\* driver and a further call on a driver no longer tracked leave the
\* tracked-driver map as it was
C10_CleanupDriver ==
  [][(pc' = "returned" /\ call'.op = CLEANUP_DRIVER) =>
       LET d == call'.driver
       IN /\ ret'.kind = "return"
          /\ d # NoDriver => processes'[d].quit_called
          /\ (d # NoDriver /\ call'.fault = "none") =>
               /\ ~Tracked(drivers', d)
               /\ DOMAIN drivers' = {s \in DOMAIN drivers : drivers[s] # d}
               /\ \A s \in DOMAIN drivers' : drivers'[s] = drivers[s]
          /\ (d = NoDriver \/ call'.fault # "none" \/ ~Tracked(drivers, d)) =>
               drivers' = drivers]_vars

\* a further cleanup_driver on a driver that an earlier call ended: this
\* call's quit raised without ending anything, the driver is not tracked and
\* another driver still is
C10_Witness ==
  /\ pc = "returned" /\ call.op = CLEANUP_DRIVER /\ call.driver # NoDriver
  /\ call.fault = "quit"
  /\ processes[call.driver].state = "quit"
  /\ ~Tracked(drivers, call.driver)
  /\ DOMAIN drivers # {}

CreateFailure(c) ==
  c.service_name \notin Services \/ c.fault \in {"options", "start", "window_size"}

\* C12: create_driver either returns a driver that is tracked under its
\* service name, or raises DriverInitializationError; it raises for every
\* failure cause (unsupported service, options, browser start, window
\* sizing), and then the tracked-driver map is unchanged
C12_ReturnsTrackedOrRaises ==
  [][(pc' = "returned" /\ call'.op = CREATE_DRIVER) =>
       IF CreateFailure(call')
         THEN /\ ret'.kind = "DriverInitializationError"
              /\ drivers' = drivers
         ELSE /\ ret'.kind = "return"
              /\ ret'.driver # NoDriver
              /\ call'.service_name \in DOMAIN drivers'
              /\ drivers'[call'.service_name] = ret'.driver
              /\ \A s \in DOMAIN drivers \ {call'.service_name} :
                   s \in DOMAIN drivers' /\ drivers'[s] = drivers[s]]_vars

\* a window sizing failure while another driver is tracked
C12_Witness ==
  /\ pc = "returned" /\ call.op = CREATE_DRIVER
  /\ call.fault = "window_size" /\ call.service_name \in Services
  /\ ret.kind = "DriverInitializationError"
  /\ drivers # NoDrivers

\* C14: a failing stealth configuration is not fatal: setup_stealth_mode
\* raises nothing, and a create_driver call whose only failure is the stealth
\* script returns a driver, running and tracked under its service name
C14_StealthFailureNotFatal ==
  /\ \A fault \in CreateFaults : SetupStealthMode(fault) = "none"
  /\ (pc = "returned" /\ call.op = CREATE_DRIVER
        /\ call.fault = "stealth" /\ call.service_name \in Services) =>
       /\ ret.kind = "return"
       /\ ret.driver \in 1..Len(processes)
       /\ processes[ret.driver].state = "running"
       /\ call.service_name \in DOMAIN drivers
       /\ drivers[call.service_name] = ret.driver

\* a driver created although its stealth script failed
C14_Witness ==
  /\ pc = "returned" /\ call.op = CREATE_DRIVER /\ call.fault = "stealth"
  /\ ret.kind = "return" /\ Tracked(drivers, ret.driver)

(***************************************************************************)
(* Claims about the constructor.                                           *)
(***************************************************************************)
\* the configuration has no global_settings section: it is not a JSON
\* object, or it is one without that key
LacksGlobalSettings(cfg) ==
  ~(cfg.kind = "object" /\ "global_settings" \in cfg.names)

\* C13: constructing the manager on a missing configuration file, on invalid
\* JSON, or on a configuration without the global_settings section fails
\* with ConfigurationError and with no other exception type, and no driver
\* is ever created from it
C13_BadConfigRaisesConfigurationError ==
  (call.op # "none" /\ LacksGlobalSettings(config)) =>
    /\ pc = "failed"
    /\ ret.kind = "ConfigurationError"
    /\ processes = <<>>

(***************************************************************************)
(* Claims about find_elements_with_fallback.                               *)
(***************************************************************************)
\* the selector satisfies the condition its strategy waits for: some node
\* under PRESENCE, some node and all of them displayed under VISIBLE, the
\* strategy's condition on the first node otherwise
Yielding(pg, sib, selector, strategy) ==
  LET nodes == Nodes(pg, sib, selector)
  IN /\ nodes # <<>>
     /\ CASE strategy = PRESENCE -> TRUE
          [] strategy = VISIBLE ->
               \A i \in 1..Len(nodes) : nodes[i] \in {"visible", "clickable"}
          [] OTHER -> StrategyPredicate(nodes[1], strategy)

\* the positions of the list whose selector yields elements
YieldingAt(pg, sib, selectors, strategy) ==
  {i \in 1..Len(selectors) : Yielding(pg, sib, selectors[i], strategy)}

\* C15: find_elements_with_fallback never raises: when no selector yields
\* elements it returns the empty list with None for the selector, and a
\* selector that times out or fails only moves the search to the next one,
\* so the first yielding selector is returned with a non-empty list
C15_FindAllNeverRaises ==
  (pc = "returned" /\ call.op = FIND_ALL) =>
    LET Y == YieldingAt(page, siblings, call.selectors, call.strategy)
    IN /\ ret.kind = "return"
       /\ IF Y = {}
            THEN ret.elements = <<>> /\ ret.selector = "None"
            ELSE ret.elements # <<>> /\ ret.selector = call.selectors[Least(Y)]

\* under CLICKABLE the first selector is one the driver rejects, and the
\* search went on to the second
C15_Witness ==
  /\ pc = "returned" /\ call.op = FIND_ALL /\ call.strategy = CLICKABLE
  /\ Len(call.selectors) = 2
  /\ page[call.selectors[1]] = "invalid"
  /\ ret.kind = "return" /\ ret.selector = call.selectors[2]

\* the nodes of a yielding selector that its strategy's condition matches
Matched(pg, sib, selector, strategy) ==
  LET nodes == Nodes(pg, sib, selector)
  IN {i \in 1..Len(nodes) : StrategyPredicate(nodes[i], strategy)}

\* C16: under every strategy, find_elements_with_fallback returns the first
\* selector of the list that yields a match, with the complete set of the
\* elements it matches
C16_ReturnsCompleteMatchSet ==
  (pc = "returned" /\ call.op = FIND_ALL
     /\ YieldingAt(page, siblings, call.selectors, call.strategy) # {}) =>
    LET k == Least(YieldingAt(page, siblings, call.selectors, call.strategy))
    IN /\ ret.kind = "return"
       /\ ret.selector = call.selectors[k]
       /\ Len(ret.elements)
            = Cardinality(Matched(page, siblings, call.selectors[k], call.strategy))

(***************************************************************************)
(* Claims about what the safe operations let out.                          *)
(***************************************************************************)
\* the values an operation can return
ReturnValues(op) ==
  IF op = SAFE_GET_TEXT THEN {"None"} \cup {Strip(t) : t \in Texts}
  ELSE {"True", "False"}

\* C17: safe_click, safe_send_keys and safe_get_text let no transient
\* condition out: a call ends by returning (False or None once its loop is
\* exhausted) or by raising SelectorNotFoundError, which only a selector-list
\* target can raise
C17_OnlySelectorNotFoundPropagates ==
  /\ ret.kind \in {"none", "return", "SelectorNotFoundError"}
  /\ (pc = "returned" /\ call.op \in SafeOps) =>
       \/ /\ ret.kind = "return"
          /\ ret.value \in ReturnValues(call.op)
          /\ (frame.attempt = Attempts(call.retry_count) /\ ret.sources = <<>>
                /\ ret.value # "True") => ret.value = Failure(call.op)
       \/ /\ ret.kind = "SelectorNotFoundError"
          /\ call.target = "selectors"

\* safe_click on an element that never becomes clickable: two attempts, each
\* timed out, and the call returned False
C17_Witness ==
  /\ pc = "returned" /\ call.op = SAFE_CLICK /\ call.target = "element"
  /\ call.retry_count = 1 /\ frame.attempt = 2
  /\ ~frame.element.stale /\ page[frame.element.sel] # "clickable"
  /\ ret.kind = "return" /\ ret.value = "False"

\* the search of the selector list finds nothing on the page
NoMatch == call.target = "selectors" /\ Matching(page, call.selectors, PRESENCE) = {}

\* C18: a safe operation on a selector list of which no selector matches
\* raises SelectorNotFoundError, both when it resolves its target at the
\* start and when it resolves it again after a stale element
C18_ResolveFailurePropagates ==
  [][/\ (pc = "idle" /\ call'.op \in SafeOps /\ NoMatch') =>
          /\ pc' = "returned"
          /\ ret'.kind = "SelectorNotFoundError"
          /\ ret'.selectors_tried = call'.selectors
     /\ (pc \in {SAFE_CLICK, SAFE_GET_TEXT, TYPING} /\ frame.element.stale
           /\ frame'.changes = frame.changes /\ NoMatch) =>
          /\ pc' = "returned"
          /\ ret'.kind = "SelectorNotFoundError"
          /\ ret'.selectors_tried = call.selectors]_vars

\* the element found at the start went stale, the selectors no longer match,
\* and the re-resolve raised
C18_Witness ==
  /\ pc = "returned" /\ call.op = SAFE_GET_TEXT /\ call.target = "selectors"
  /\ frame.element # None /\ frame.element.stale
  /\ frame.attempt = 1
  /\ ret.kind = "SelectorNotFoundError"
  /\ ret.selectors_tried = call.selectors

\* the sources of an attempt that are not empty
NonEmpty(sources) == {i \in 1..Len(sources) : Strip(sources[i]) # ""}

\* C19: safe_get_text returns the value of the first non-empty source in
\* the order rendered text, innerText, textContent, and never the empty
\* string
C19_FirstNonEmptySource ==
  (pc = "returned" /\ call.op = SAFE_GET_TEXT /\ ret.kind = "return"
     /\ ret.sources # <<>>) =>
    /\ ret.value # ""
    /\ NonEmpty(ret.sources) # {}
    /\ ret.value = Strip(ret.sources[Least(NonEmpty(ret.sources))])

(***************************************************************************)
(* Claims about wait_for_element_to_disappear.                             *)
(***************************************************************************)
\* the selector the wait is polling
Watched == call.selectors[frame.attempt + 1]

\* a step of the wait itself, not of the page
WaitStep == pc = WAITING /\ frame'.changes = frame.changes

\* C20: wait_for_element_to_disappear never raises.  It watches the
\* selectors one after another in list order, each for a timeout window of
\* its own; it returns True at the first poll that finds the watched
\* selector absent, and only then; it returns False when the list is empty
\* or when the last selector's window is over without that
C20_Step ==
  /\ (pc = "idle" /\ call'.op = WAITING) =>
       IF call'.selectors = <<>>
         THEN pc' = "returned" /\ ret'.kind = "return" /\ ret'.value = "False"
         ELSE pc' = WAITING /\ frame'.attempt = 0 /\ frame'.inner = 0
  /\ (WaitStep /\ page[Watched] = "absent") =>
       pc' = "returned" /\ ret'.kind = "return" /\ ret'.value = "True"
  /\ (WaitStep /\ page[Watched] \in NodeStates) =>
       IF frame.inner + 1 < MaxPolls
         THEN pc' = WAITING /\ frame'.attempt = frame.attempt
                /\ frame'.inner = frame.inner + 1
         ELSE frame'.attempt = frame.attempt + 1 /\ frame'.inner = 0
  /\ (WaitStep /\ page[Watched] # "absent" /\ frame'.attempt # frame.attempt) =>
       IF frame.attempt + 1 = Len(call.selectors)
         THEN pc' = "returned" /\ ret'.kind = "return" /\ ret'.value = "False"
         ELSE pc' = WAITING /\ frame'.attempt = frame.attempt + 1

C20_Outcome ==
  /\ pc = WAITING => frame.attempt < Len(call.selectors) /\ frame.inner < MaxPolls
  /\ (pc = "returned" /\ call.op = WAITING) =>
       /\ ret.kind = "return"
       /\ ret.value \in {"True", "False"}
       /\ ret.value = "True" =>
            /\ frame.attempt < Len(call.selectors)
            /\ ret.selector = call.selectors[frame.attempt + 1]
            /\ page[ret.selector] = "absent"
       /\ ret.value = "False" => frame.attempt = Len(call.selectors)

C20_DisappearWait == []C20_Outcome /\ [][C20_Step]_vars

\* the first selector stayed present for its whole window; the second one,
\* present when its window began, disappeared during it
C20_Witness ==
  /\ pc = "returned" /\ call.op = WAITING
  /\ Len(call.selectors) = 2 /\ call.selectors[1] # call.selectors[2]
  /\ frame.attempt = 1 /\ frame.inner = 1 /\ frame.changes = 1
  /\ page[call.selectors[1]] \in NodeStates
  /\ ret.value = "True" /\ ret.selector = call.selectors[2]

(***************************************************************************)
(* Claims about stale elements.                                            *)
(***************************************************************************)
\* the element a search of the call's selector list finds on the page
Resolved(pg, selectors) ==
  [sel |-> selectors[Least(Matching(pg, selectors, PRESENCE))], stale |-> FALSE]

\* an iteration of the operation runs on a handle that is stale
StaleAttempt(op) == pc = op /\ frame.element.stale /\ frame'.changes = frame.changes

\* the search counters of the statistics
SearchStatistics(stats) ==
  <<stats.total_searches, stats.successful_searches, stats.failed_searches,
    stats.selector_usage, stats.strategy_success_rate, stats.timing>>

\* C21: when an attempt of safe_click on a selector list meets a stale
\* element, one new find_element_with_fallback runs on the original list and
\* the next attempt works on the element it found, not on the stale handle;
\* on a bare element no search runs and the next attempt works on the same
\* handle
C21_ClickReResolves ==
  [][StaleAttempt(SAFE_CLICK) =>
       IF call.target = "selectors"
         THEN /\ nfinds' = nfinds + 1
              /\ statistics'.total_searches = statistics.total_searches + 1
              /\ pc' = SAFE_CLICK =>
                   /\ frame'.element = Resolved(page, call.selectors)
                   /\ ~frame'.element.stale
                   /\ frame'.attempt = frame.attempt + 1
         ELSE /\ nfinds' = nfinds
              /\ SearchStatistics(statistics') = SearchStatistics(statistics)
              /\ pc' = SAFE_CLICK =>
                   /\ frame'.element = frame.element
                   /\ frame'.attempt = frame.attempt + 1]_vars

\* safe_click found its element under the first selector, the page changed,
\* and the second attempt holds the element of the second selector
C21_Witness ==
  /\ pc = SAFE_CLICK /\ call.target = "selectors"
  /\ Len(call.selectors) = 2 /\ call.selectors[1] # call.selectors[2]
  /\ frame.attempt = 1 /\ frame.changes = 1
  /\ frame.element = [sel |-> call.selectors[2], stale |-> FALSE]
  /\ page[call.selectors[1]] \in {"absent", "invalid"}
  /\ nfinds = 2
  /\ statistics.selector_usage[call.selectors[1]] = [attempts |-> 2, successes |-> 1]
  /\ statistics.selector_usage[call.selectors[2]] = [attempts |-> 1, successes |-> 1]

\* C22: safe_send_keys treats a stale element as safe_click does: on a
\* selector list, when the element is found stale during the focusing click,
\* the clearing or the typing of an attempt, the next attempt works on an
\* element freshly resolved from the list
C22_SendKeysReResolves ==
  [][(/\ pc \in {SAFE_SEND_KEYS, TYPING}
      /\ frame.element.stale /\ frame'.changes = frame.changes
      /\ call.target = "selectors"
      /\ Matching(page, call.selectors, PRESENCE) # {}
      /\ pc' = SAFE_SEND_KEYS /\ frame'.attempt = frame.attempt + 1) =>
       /\ frame'.element = Resolved(page, call.selectors)
       /\ nfinds' = nfinds + 1]_vars

\* safe_send_keys has returned True after typing into a text field
TypedInto ==
  /\ pc = "returned"
  /\ call.op = SAFE_SEND_KEYS
  /\ ret.kind = "return"
  /\ ret.value = "True"
  /\ field[frame.element.sel].input

\* C23: whenever safe_send_keys with clear_first returns True, the field it
\* typed into holds exactly the text, whatever it held before and whatever
\* earlier attempts left in it
C23_FieldHoldsText ==
  TypedInto => field[frame.element.sel].value = call.text

\* the second attempt succeeded on a field after the first one failed
C23_Witness ==
  /\ TypedInto
  /\ frame.attempt = 2
  /\ field[frame.element.sel].value = call.text

\* the page on which every selector the driver rejects matches nothing, so
\* that its test times out
TimedOut(pg) == [s \in Selectors |-> IF pg[s] = "invalid" THEN "absent" ELSE pg[s]]

\* find_element_with_fallback has tested a selector the driver rejects
TestedInvalid ==
  /\ pc = "returned"
  /\ call.op = FIND
  /\ \E i \in 1..Len(ret.tested) : page[ret.tested[i]] = "invalid"

\* C24: in find_element_with_fallback no exception from a selector's test
\* ends the search: what the call returns or raises and the statistics it
\* leaves are those of the same call on a page where each selector that
\* raised times out instead
C24_ErrorCountsAsTimeout ==
  [][(pc = "idle" /\ pc' = "returned" /\ call'.op = FIND) =>
       LET r == FindElementWithFallback(statistics, TimedOut(page),
                                        call'.selectors, call'.strategy)
       IN /\ ret'.kind \in {"return", "SelectorNotFoundError"}
          /\ ret'.kind = r.kind
          /\ ret'.element = r.element
          /\ ret'.selector = r.selector
          /\ ret'.selectors_tried = r.selectors_tried
          /\ ret'.tested = r.tested
          /\ statistics' = r.statistics]_vars

\* a search that went past a rejected selector and found a later one
C24_Witness ==
  /\ TestedInvalid
  /\ ret.kind = "return"
  /\ Len(ret.tested) = 2
  /\ page[ret.tested[1]] = "invalid"

\* C25: cleanup_all_drivers calls quit on every tracked driver, whether or
\* not the quit of another one raised, and leaves no driver tracked
C25_QuitsEveryDriver ==
  [][(pc' = "returned" /\ call'.op = CLEANUP_ALL_DRIVERS) =>
       /\ \A s \in DOMAIN drivers : processes'[drivers[s]].quit_called
       /\ ret'.cleaned = Range(drivers)
       /\ ret'.kind = "return"
       /\ drivers' = NoDrivers]_vars

\* two drivers were tracked; the quit of the first failed and left its
\* browser running, the second was quit all the same
C25_Witness ==
  /\ pc = "returned" /\ call.op = CLEANUP_ALL_DRIVERS
  /\ \E d1 \in ret.cleaned, d2 \in ret.cleaned :
       /\ d1 < d2
       /\ processes[d1].quit_called /\ processes[d1].state = "running"
       /\ processes[d2].quit_called /\ processes[d2].state = "quit"
  /\ drivers = NoDrivers

\* no counter of `before` is larger than in `after`, and every selector
\* with a usage entry in `before` has one in `after`
Accumulated(before, after) ==
  /\ before.total_searches <= after.total_searches
  /\ before.successful_searches <= after.successful_searches
  /\ before.failed_searches <= after.failed_searches
  /\ \A s \in DOMAIN before.selector_usage :
       /\ s \in DOMAIN after.selector_usage
       /\ before.selector_usage[s].attempts <= after.selector_usage[s].attempts
       /\ before.selector_usage[s].successes <= after.selector_usage[s].successes
  /\ \A g \in FindStrategy :
       /\ before.strategy_success_rate[g].attempts <= after.strategy_success_rate[g].attempts
       /\ before.strategy_success_rate[g].successes <= after.strategy_success_rate[g].successes
  /\ \A k \in RetryKinds : before.retry_counts[k] <= after.retry_counts[k]

\* C26: the statistics only accumulate until reset_statistics runs: no step
\* of a search or of a safe operation, and no save, makes a counter smaller
\* or removes a selector's usage entry
C26_CountersOnlyGrow ==
  [][~(pc \in {"idle", "saved"} /\ call'.op = RESET) =>
       Accumulated(statistics, statistics')]_vars

\* two searches and an exhausted retry loop have been counted, the same
\* selector was tested twice
C26_Witness ==
  /\ pc = "returned"
  /\ call.op \in SafeOps
  /\ statistics.total_searches = 2
  /\ nfinds = 2
  /\ \E k \in RetryKinds : statistics.retry_counts[k] > 0
  /\ \E s \in DOMAIN statistics.selector_usage :
       /\ statistics.selector_usage[s].attempts = 2
       /\ statistics.selector_usage[s].successes >= 1

\* C27: find_element_with_fallback and find_elements_with_fallback leave
\* retry_counts as they are, and no step of a safe operation that was given
\* an element makes a search or changes a search statistic
C27_SearchAndRetryApart ==
  [][/\ (pc = "idle" /\ call'.op \in {FIND, FIND_ALL}) =>
          statistics'.retry_counts = statistics.retry_counts
     /\ (call'.op \in SafeOps /\ call'.target = "element") =>
          /\ SearchStatistics(statistics') = SearchStatistics(statistics)
          /\ nfinds' = nfinds]_vars

\* after a search under another strategy than the default one, a safe
\* operation given an element has used up its retries
C27_Witness ==
  /\ pc = "returned"
  /\ call.op \in SafeOps /\ call.target = "element"
  /\ statistics.retry_counts[RetryKind(call.op)] > 0
  /\ statistics.total_searches = 1
  /\ \E g \in FindStrategy \ {PRESENCE} : statistics.strategy_success_rate[g].attempts = 1

\* human_like_typing is running or has ended
Typing == call.op = HUMAN_LIKE_TYPING

\* no send_keys call of human_like_typing has raised
NoKeystrokeFailed == \A j \in 1..Len(frame.sent) : frame.sent[j].ok

\* C28: in human_like_typing a wrong character that was typed is followed
\* at once by BACKSPACE and, once that is delivered, by the intended
\* character; no wrong character comes before the first character of the
\* text; and when no keystroke fails, the characters the element is left
\* with by the finished call are exactly the text, in order
C28_TyposAreCorrected ==
  Typing =>
    LET sent == frame.sent
    IN /\ \A j \in 1..Len(sent) :
            (sent[j].wrong /\ sent[j].ok) =>
              /\ j + 1 <= Len(sent)
              /\ sent[j + 1].key = "BACKSPACE" /\ ~sent[j + 1].wrong
              /\ sent[j + 1].ok =>
                   /\ j + 2 <= Len(sent)
                   /\ ~sent[j + 2].wrong
                   /\ sent[j + 2].key = call.text[sent[j].i + 1]
       /\ \A j \in 1..Len(sent) : sent[j].wrong => (j > 1 /\ sent[j].i > 0)
       /\ (pc = "returned" /\ NoKeystrokeFailed) =>
            /\ ret.kind = "return"
            /\ Received(<< >>, sent) = call.text

\* a two-character text typed with a corrected typo before its second
\* character, on a text field that now ends with the text
C28_Witness ==
  /\ Typing /\ pc = "returned" /\ NoKeystrokeFailed
  /\ Len(call.text) = 2
  /\ Len(frame.sent) = 4
  /\ frame.sent[2].wrong /\ frame.sent[3].key = "BACKSPACE"
  /\ field[frame.element.sel].input
  /\ Received(<< >>, frame.sent) = call.text

\* the click scripts the focusing click of the current attempt has run, on
\* a page that has not changed since safe_send_keys began: one in every
\* iteration completed on a fresh handle to a clickable element
FocusClicks ==
  IF ~frame.element.stale /\ page[frame.element.sel] = "clickable"
    THEN frame.inner
    ELSE 0

\* C29: a safe_send_keys call with retry count R runs at most R + 1 click
\* actions on its target over all its attempts; the clicks of the attempt
\* under way are among them
C29_ClicksBounded ==
  (pc = SAFE_SEND_KEYS /\ frame.changes = 0) =>
    FocusClicks <= call.retry_count + 1

\* C30: a safe operation changes no retry counter but the one of its own
\* kind: safe_click only retry_counts['click'], safe_send_keys only
\* retry_counts['send_keys'], safe_get_text only retry_counts['get_text']
C30_OwnRetryCounterOnly ==
  [][call'.op \in SafeOps =>
       \A k \in RetryKinds \ {RetryKind(call'.op)} :
         statistics'.retry_counts[k] = statistics.retry_counts[k]]_vars

\* the place of a step in an attempt
Rank(name) ==
  CASE name = "scroll" -> 1
    [] name = "wait" -> 2
    [] name = "click" -> 3
    [] name = "clear" -> 4
    [] name = "CONTROL+a" -> 5
    [] name = "DELETE" -> 6
    [] OTHER -> 7

\* the steps of the name in the recorded attempt
StepsNamed(name) == {j \in 1..Len(trace.steps) : trace.steps[j].step = name}

\* an iteration of safe_click's loop has run and its steps are recorded
Clicked == trace.on /\ call.op = SAFE_CLICK /\ frame.attempt >= 1

\* C31: an attempt of safe_click scrolls the element into view when asked
\* to and not otherwise, then waits for it to be clickable whether or not
\* the scroll went through, then clicks; it clicks if and only if the wait
\* succeeded
C31_ScrollWaitClick ==
  Clicked =>
    /\ \A i \in 1..Len(trace.steps), j \in 1..Len(trace.steps) :
         i < j => Rank(trace.steps[i].step) < Rank(trace.steps[j].step)
    /\ \A j \in 1..Len(trace.steps) : Rank(trace.steps[j].step) <= 3
    /\ (StepsNamed("scroll") # {}) <=> call.scroll_to_element
    /\ StepsNamed("wait") # {}
    /\ (StepsNamed("click") # {}) <=> (\E j \in StepsNamed("wait") : trace.steps[j].ok)
    /\ (pc = "returned" /\ ret.kind = "return" /\ ret.value = "True") =>
         \E j \in StepsNamed("click") : trace.steps[j].ok

\* a click that went through after its scroll had failed
C31_Witness ==
  /\ Clicked /\ pc = "returned" /\ ret.value = "True"
  /\ trace.steps = << Step("scroll", FALSE), Step("wait", TRUE), Step("click", TRUE) >>

\* the steps of the attempt of safe_send_keys under way are recorded
Entering == trace.on /\ call.op = SAFE_SEND_KEYS

\* the characters sent up to step j of the recorded attempt
CharsUpTo(j) == {k \in StepsNamed("n") \cup StepsNamed("e") : k <= j}

\* C32: an attempt of safe_send_keys first clicks the element for focus,
\* then clears it (clear, select all, delete) when clear_first and only
\* then, then sends the characters of the text one at a time in order;
\* nothing is cleared or typed unless the focusing click has returned
\* success in the same attempt
C32_FocusClearType ==
  Entering =>
    LET S == trace.steps
    IN /\ \A j \in 1..Len(S) :
            Rank(S[j].step) >= 4 =>
              \E i \in 1..(j - 1) : S[i] = Step("click", TRUE)
       /\ \A i \in 1..Len(S), j \in 1..Len(S) :
            i < j =>
              /\ Rank(S[j].step) <= 3 => Rank(S[i].step) <= 3
              /\ Rank(S[j].step) >= 4 => Rank(S[i].step) <= Rank(S[j].step)
              /\ Rank(S[j].step) \in 4..6 => Rank(S[i].step) < Rank(S[j].step)
       /\ \A j \in 1..Len(S) : Rank(S[j].step) \in 4..6 => call.clear_first
       /\ \A j \in 1..Len(S) :
            Rank(S[j].step) = 7 =>
              /\ S[j].step = call.text[Cardinality(CharsUpTo(j))]
              /\ call.clear_first =>
                   \A name \in {"clear", "CONTROL+a", "DELETE"} :
                     \E i \in StepsNamed(name) : S[i].ok
       /\ (pc = "returned" /\ ret.kind = "return" /\ ret.value = "True") =>
            /\ Cardinality(CharsUpTo(Len(S))) = Len(call.text)
            /\ \A j \in 1..Len(S) : Rank(S[j].step) >= 4 => S[j].ok

\* the second attempt typed the text without clearing, after its focusing
\* click had gone through on the second try
C32_Witness ==
  /\ Entering /\ pc = "returned" /\ ret.value = "True"
  /\ ~call.clear_first
  /\ frame.attempt = 2
  /\ trace.steps = << Step("scroll", TRUE), Step("wait", TRUE), Step("click", FALSE),
                      Step("scroll", TRUE), Step("wait", TRUE), Step("click", TRUE),
                      Step("n", TRUE), Step("e", TRUE) >>

\* C33: reset_statistics leaves the finder bound to the same driver with
\* the same default_timeout
C33_ResetKeepsBinding ==
  [][(pc \in {"idle", "saved"} /\ call'.op = RESET) =>
       /\ attributes'.driver = attributes.driver
       /\ attributes'.default_timeout = attributes.default_timeout]_vars

\* a finder made on the second session with a timeout of its own was reset
C33_Witness ==
  /\ pc = "returned" /\ call.op = RESET
  /\ attributes = [driver |-> "session 2", default_timeout |-> 5]
  /\ statistics = InitStatistics

\* a step in which a safe operation of the kind returns failure after its
\* attempt loop: the operation itself, or the click safe_send_keys makes to
\* focus the element, which is a safe_click with the default retry_count
GaveUp(kind) ==
  \/ /\ pc \in SafeOps \cup {TYPING}
     /\ kind = RetryKind(call.op)
     /\ pc' = "returned" /\ ret'.kind = "return" /\ ret'.value = Failure(call.op)
  \/ /\ pc = SAFE_SEND_KEYS
     /\ kind = "click"
     /\ frame.inner + 1 = Attempts(DefaultRetryCount)
     /\ pc' # TYPING /\ frame'.inner = 0

\* the retry_count argument of that operation
RetryCountOf(kind) ==
  IF pc = SAFE_SEND_KEYS /\ kind = "click" THEN DefaultRetryCount ELSE call.retry_count

\* C34: retry_counts[kind] changes only in a step in which a safe operation
\* of that kind returns failure after its attempt loop, and it grows there by
\* exactly the retry_count argument; every other step of a safe operation,
\* the failed attempts before a success and the success itself included,
\* leaves retry_counts[kind] as it was
C34_RetryCountOnFailureOnly ==
  [][\A kind \in RetryKinds :
       /\ statistics'.retry_counts[kind] # statistics.retry_counts[kind]
            => GaveUp(kind)
       /\ GaveUp(kind)
            => statistics'.retry_counts[kind]
                 = statistics.retry_counts[kind] + RetryCountOf(kind)]_vars

\* a safe_click succeeded on its second attempt and no click retry is counted
C34_Witness ==
  /\ pc = "returned" /\ call.op = SAFE_CLICK
  /\ ret.kind = "return" /\ ret.value = "True"
  /\ frame.attempt = 2
  /\ statistics.retry_counts["click"] = 0

\* the sum of counter[k][name] over the keys of a counter table
RECURSIVE SumOver(_, _, _)
SumOver(counter, keys, name) ==
  IF keys = {} THEN 0
  ELSE LET k == CHOOSE x \in keys : TRUE
       IN counter[k][name] + SumOver(counter, keys \ {k}, name)

Total(counter, name) == SumOver(counter, DOMAIN counter, name)

\* C35: in every state a fresh finder reaches by find and safe operations,
\* every selector and every strategy has successes <= attempts, the attempts
\* of the strategies add up to total_searches, and the successes of the
\* selectors and the successes of the strategies both add up to
\* successful_searches
C35_CountersConsistent ==
  /\ \A s \in DOMAIN statistics.selector_usage :
       statistics.selector_usage[s].successes <= statistics.selector_usage[s].attempts
  /\ \A st \in DOMAIN statistics.strategy_success_rate :
       statistics.strategy_success_rate[st].successes
         <= statistics.strategy_success_rate[st].attempts
  /\ Total(statistics.strategy_success_rate, "attempts") = statistics.total_searches
  /\ Total(statistics.selector_usage, "successes") = statistics.successful_searches
  /\ Total(statistics.strategy_success_rate, "successes") = statistics.successful_searches

\* two searches under different strategies, one found and one not, the
\* second made by a safe operation
C35_Witness ==
  /\ pc = "returned" /\ call.op \in SafeOps
  /\ statistics.total_searches = 2
  /\ statistics.successful_searches = 1
  /\ statistics.failed_searches = 1
  /\ \E st \in FindStrategy \ {PRESENCE} :
       statistics.strategy_success_rate[st].attempts = 1
  /\ Cardinality(DOMAIN statistics.selector_usage) = 2

\* the browsers create_driver started that no quit was ever asked of
NeverQuit == {d \in 1..Len(processes) : ~processes[d].quit_called}

\* C36: every browser create_driver started is tracked in the drivers map
\* or has been quit, also a browser whose create_driver failed after the
\* start and a browser whose service was given a new driver; so none is
\* left running after cleanup_all_drivers or __exit__
C36_StartedIsTrackedOrQuit ==
  \A d \in NeverQuit : processes[d].state = "running" => d \in Range(drivers)

\* C37: a load_statistics that fails, the file missing or unreadable or not
\* valid JSON, returns False without raising and leaves the statistics of
\* the finder that ran it as they were; save_statistics and
\* log_search_statistics leave the statistics as they were
C37_FailedLoadChangesNothing ==
  [][/\ (pc = "saved" /\ call'.op = LOAD /\ call'.fault # "none")
          => /\ ret'.kind = "return" /\ ret'.value = "False"
             /\ restored' = restored /\ statistics' = statistics
     /\ (pc = "idle" /\ call'.op \in {SAVE, LOG_STATISTICS})
          => statistics' = statistics /\ restored' = restored]_vars

\* a finder that has counted a search ran load_statistics on a file that is
\* not valid JSON
C37_Witness ==
  /\ pc = "returned" /\ call.op = LOAD /\ call.fault = "decode"
  /\ ret.value = "False"
  /\ statistics.total_searches > 0

\* the statistics with the entry of one strategy taken out
Besides(stats, strategy) ==
  [stats EXCEPT !.strategy_success_rate =
     [st \in DOMAIN stats.strategy_success_rate \ {strategy} |->
        stats.strategy_success_rate[st]]]

\* C38: a find_element_with_fallback under TEXT_PRESENT or
\* ATTRIBUTE_PRESENT returns the element and the selector, or raises the
\* error, that the same call under PRESENCE gives on that page, and leaves
\* the statistics that call leaves but for the strategy_success_rate entry
\* it adds to: its own, by what PRESENCE adds to the presence entry
C38_TextAndAttributeAsPresence ==
  [][(pc = "idle" /\ call'.op = FIND
        /\ call'.strategy \in {TEXT_PRESENT, ATTRIBUTE_PRESENT})
       => LET r == FindElementWithFallback(statistics, page, call'.selectors, PRESENCE)
              own == call'.strategy
          IN /\ ret'.kind = r.kind
             /\ ret'.element = r.element
             /\ ret'.selector = r.selector
             /\ ret'.selectors_tried = r.selectors_tried
             /\ Besides(Besides(statistics', own), PRESENCE)
                  = Besides(Besides(r.statistics, own), PRESENCE)
             /\ statistics'.strategy_success_rate[PRESENCE]
                  = statistics.strategy_success_rate[PRESENCE]
             /\ r.statistics.strategy_success_rate[own]
                  = statistics.strategy_success_rate[own]
             /\ \A name \in {"attempts", "successes"} :
                  statistics'.strategy_success_rate[own][name]
                      - statistics.strategy_success_rate[own][name]
                    = r.statistics.strategy_success_rate[PRESENCE][name]
                      - statistics.strategy_success_rate[PRESENCE][name]]_vars

\* a search for text found, with its second selector, a node that is in the
\* page and not shown
C38_Witness ==
  /\ pc = "returned" /\ call.op = FIND /\ call.strategy = TEXT_PRESENT
  /\ ret.kind = "return"
  /\ Len(call.selectors) = 2 /\ ret.selector = call.selectors[2]
  /\ page[ret.selector] = "present"

\* C39: when human_like_typing returns normally, the characters the element
\* received during the call, each BACKSPACE applied, are the text, also
\* when a keystroke failed and the fallback sent the whole text
C39_DeliversExactlyText ==
  (pc = "returned" /\ call.op = HUMAN_LIKE_TYPING /\ ret.kind = "return")
    => Received(<<>>, frame.sent) = call.text

====
